---- MODULE Spec2Model ----
(***************************************************************************)
(* Model of the vkt repository-access layer: the submit command's pipeline *)
(* (src/commands/submit.rs) and the list command (src/commands/list.rs)    *)
(* over the GitCode provider (src/api/gitcode/mod.rs), against a forge     *)
(* whose state is the files of each branch and the pull requests opened so *)
(* far.                                                                    *)
(*                                                                         *)
(* Strings are sequences of one-character strings, so that trimming,       *)
(* splitting, case folding and formatting are computed as the code         *)
(* computes them.                                                          *)
(***************************************************************************)
EXTENDS Integers, Sequences, FiniteSets, TLC

VARIABLES
    args,           \* SubmitArgs of the invocation (plus what the local path is)
    config,         \* the loaded Config
    pc,             \* position of execute() / which provider call is next
    run,            \* number of the current invocation of the command
    clock,          \* unix time, as chrono::Local::now().timestamp() reads it
    target_path,    \* submit.rs: target_path
    target_branch,  \* submit.rs: target_branch
    result,         \* what the last invocation / provider call returned
    calls,          \* provider operations called in this invocation, in order
    http,           \* HTTP requests sent in this invocation, in order
    remoteFiles,    \* forge: branch name -> files (path, sha) of that branch
    remotePRs,      \* forge: pull requests, in order of creation
    remoteLog,      \* forge: the mutations it has applied, in order
    tasks,          \* get.rs: tasks, the download tasks spawned, each with its state
    results,        \* get.rs: results, the DownloadResults collected so far
    disk            \* the local file system: the paths that exist

vars == <<args, config, pc, run, clock, target_path, target_branch, result,
          calls, http, remoteFiles, remotePRs, remoteLog, tasks, results, disk>>

----------------------------------------------------------------------------
(* Bounds of the model *)

MaxRuns == 2
MaxClock == 2

----------------------------------------------------------------------------
(* String helpers (std::str) *)

Last(s) == s[Len(s)]

\* str::ends_with(char)
EndsWithChar(s, c) == Len(s) > 0 /\ Last(s) = c

RECURSIVE TrimEndMatches(_, _)
\* str::trim_end_matches(char)
TrimEndMatches(s, c) ==
    IF EndsWithChar(s, c) THEN TrimEndMatches(SubSeq(s, 1, Len(s) - 1), c) ELSE s

RECURSIVE TrimStartMatches(_, _)
\* str::trim_start_matches(char)
TrimStartMatches(s, c) ==
    IF Len(s) > 0 /\ Head(s) = c THEN TrimStartMatches(Tail(s), c) ELSE s

\* str::trim_matches(char)
TrimMatches(s, c) == TrimEndMatches(TrimStartMatches(s, c), c)

\* str::starts_with(&str)
StartsWith(s, p) == Len(p) <= Len(s) /\ SubSeq(s, 1, Len(p)) = p

\* str::contains(&str)
Contains(s, sub) ==
    \E i \in 1..(Len(s) - Len(sub) + 1) : SubSeq(s, i, i + Len(sub) - 1) = sub

UpperCase == <<"A","B","C","D","E","F","G","H","I","J","K","L","M",
               "N","O","P","Q","R","S","T","U","V","W","X","Y","Z">>
LowerCase == <<"a","b","c","d","e","f","g","h","i","j","k","l","m",
               "n","o","p","q","r","s","t","u","v","w","x","y","z">>

\* char::to_lowercase on ASCII
LowerChar(c) ==
    IF \E i \in 1..Len(UpperCase) : UpperCase[i] = c
    THEN LowerCase[CHOOSE i \in 1..Len(UpperCase) : UpperCase[i] = c]
    ELSE c

\* str::to_lowercase
ToLowercase(s) == [i \in 1..Len(s) |-> LowerChar(s[i])]

RECURSIVE Replace(_, _, _)
\* str::replace(char, &str)
Replace(s, c, rep) ==
    IF s = <<>> THEN <<>>
    ELSE (IF Head(s) = c THEN rep ELSE <<Head(s)>>) \o Replace(Tail(s), c, rep)

IsWhitespace(c) == c \in {" ", "\t", "\n"}

RECURSIVE SkipWhitespace(_)
SkipWhitespace(s) ==
    IF Len(s) > 0 /\ IsWhitespace(Head(s)) THEN SkipWhitespace(Tail(s)) ELSE s

RECURSIVE TakeWord(_)
TakeWord(s) ==
    IF Len(s) > 0 /\ ~IsWhitespace(Head(s)) THEN <<Head(s)>> \o TakeWord(Tail(s)) ELSE <<>>

\* str::split_whitespace().next(): <<>> stands for None (a word is never empty)
FirstWord(s) == TakeWord(SkipWhitespace(s))

Digits == <<"0","1","2","3","4","5","6","7","8","9">>

RECURSIVE Decimal(_)
\* Display of an integer, as format!("{}", n) prints it
Decimal(n) ==
    IF n < 10 THEN <<Digits[n + 1]>> ELSE Decimal(n \div 10) \o <<Digits[(n % 10) + 1]>>

\* the characters of the paths and names of the model, in byte order
ByteOrder == <<"#", "-", ".", "/">> \o Digits \o <<":">> \o UpperCase \o LowerCase

\* the rank of a character in byte order
Byte(c) == CHOOSE i \in 1..Len(ByteOrder) : ByteOrder[i] = c

RECURSIVE StrLess(_, _)
\* Ord for str: a < b, byte by byte
StrLess(a, b) ==
    IF b = <<>> THEN FALSE
    ELSE IF a = <<>> THEN TRUE
    ELSE IF Head(a) # Head(b) THEN Byte(Head(a)) < Byte(Head(b))
    ELSE StrLess(Tail(a), Tail(b))

----------------------------------------------------------------------------
(* Errors (src/error.rs) *)

\* VktError: the variant and its message
Err(kind, msg) == [ok |-> FALSE, kind |-> kind, msg |-> msg, sha |-> 0, items |-> <<>>]

\* Ok(value): sha carries a FileInfo's sha, items a listing; 0 and <<>> otherwise
Ok(sha, items) == [ok |-> TRUE, kind |-> "Ok", msg |-> <<>>, sha |-> sha, items |-> items]

\* Ok(bool): the value is the one element of items
OkBool(b) == Ok(0, <<b>>)

Pending == [ok |-> FALSE, kind |-> "Pending", msg |-> <<>>, sha |-> 0, items |-> <<>>]

\* VktError::is_retryable
is_retryable(e) == e.kind \in {"Network", "RateLimited"}

\* VktError::is_not_found
is_not_found(e) == e.kind = "ApiNotFound"

----------------------------------------------------------------------------
(* Tree materializer (src/api/gitcode/mod.rs, src/api/gitcode/types.rs) *)

None == [some |-> FALSE, val |-> <<>>]
Some(v) == [some |-> TRUE, val |-> v]

\* Sha256 digest in hex, cut to 16 characters: an uninterpreted, collision-free
\* function of the bytes hashed
Sha256Hex16(s) == <<"#">> \o s

\* str::find(char): the first index of c, 0 for None
Find(s, c) ==
    IF \E i \in 1..Len(s) : s[i] = c
    THEN CHOOSE i \in 1..Len(s) : s[i] = c /\ \A j \in 1..(i - 1) : s[j] # c
    ELSE 0

RECURSIVE LastSegment(_)
\* str::split('/').next_back()
LastSegment(s) ==
    IF Find(s, "/") = 0 THEN s ELSE LastSegment(SubSeq(s, Find(s, "/") + 1, Len(s)))

ModeTree == <<"0","4","0","0","0","0">>
ModeBlob == <<"1","0","0","6","4","4">>

\* TreeItem giving a directory the mode of a file
TreeItem_FileModeForAll(id, name, is_dir, path) ==
    [id |-> id, name |-> name,
     item_type |-> IF is_dir THEN "tree" ELSE "blob",
     path |-> path,
     mode |-> <<"1","0","0","6","4","4">>]

\* the TreeItem built at both places of the code
TreeItem(id, name, is_dir, path) ==
    [id |-> id, name |-> name,
     item_type |-> IF is_dir THEN "tree" ELSE "blob",
     path |-> path,
     mode |-> IF is_dir THEN ModeTree ELSE ModeBlob]

\* types.rs: path_to_tree_item
path_to_tree_item(path) ==
    LET is_dir == EndsWithChar(path, "/")
        trimmed_path == TrimEndMatches(path, "/")
    IN TreeItem(Sha256Hex16(trimmed_path), LastSegment(trimmed_path), is_dir, trimmed_path)

\* Prefix keeping a leading separator
Prefix_LeadingKept(parent_path) ==
    IF parent_path.some THEN TrimEndMatches(parent_path.val, "/") ELSE <<>>

\* process_paths: prefix and prefix_with_slash
Prefix(parent_path) == IF parent_path.some THEN TrimMatches(parent_path.val, "/") ELSE <<>>
PrefixWithSlash(prefix) == IF prefix = <<>> THEN <<>> ELSE prefix \o <<"/">>

\* process_paths: the filter closure
UnderPrefix(p, prefix) ==
    LET t == TrimEndMatches(p, "/")
    IN IF prefix = <<>> THEN TRUE
       ELSE t = prefix \/ StartsWith(t, PrefixWithSlash(prefix))

RECURSIVE FilterPaths(_, _)
FilterPaths(paths, prefix) ==
    IF paths = <<>> THEN <<>>
    ELSE (IF UnderPrefix(Head(paths), prefix) THEN <<Head(paths)>> ELSE <<>>)
         \o FilterPaths(Tail(paths), prefix)

\* process_paths: the body of the loop over the filtered paths, for one path
ChildOf(path, prefix) ==
    LET pws == PrefixWithSlash(prefix)
        relative_path == IF prefix = <<>> THEN path
                         ELSE IF StartsWith(path, pws)
                              THEN SubSeq(path, Len(pws) + 1, Len(path))
                              ELSE path
        trimmed == TrimEndMatches(relative_path, "/")
        first_sep == Find(trimmed, "/")
        name == IF first_sep # 0 THEN SubSeq(trimmed, 1, first_sep - 1) ELSE trimmed
        is_dir == IF first_sep # 0 THEN TRUE ELSE EndsWithChar(path, "/")
        full_child_path == IF prefix = <<>>
                           THEN (IF is_dir THEN name \o <<"/">> ELSE name)
                           ELSE prefix \o <<"/">> \o name
    IN TreeItem(Sha256Hex16(full_child_path), name, is_dir,
                TrimEndMatches(full_child_path, "/"))

RECURSIVE Children_LastWins(_, _, _)
\* Children with a later path replacing the entry of an earlier one
Children_LastWins(filtered, prefix, children) ==
    IF filtered = <<>> THEN children
    ELSE LET item == ChildOf(Head(filtered), prefix)
         IN Children_LastWins(Tail(filtered), prefix,
                Append(SelectSeq(children, LAMBDA c : c.name # item.name), item))

RECURSIVE Children(_, _, _)
\* process_paths: the loop; children holds the map's values in insertion order
Children(filtered, prefix, children) ==
    IF filtered = <<>> THEN children
    ELSE LET item == ChildOf(Head(filtered), prefix)
             present == \E i \in 1..Len(children) : children[i].name = item.name
         IN Children(Tail(filtered), prefix,
                     IF present THEN children ELSE Append(children, item))

\* process_paths: the values of the map in an order of iteration, which the
\* map's hasher decides
IntoValues(children) ==
    {[i \in 1..Len(children) |-> children[order[i]]] :
        order \in Permutations(1..Len(children))}

\* GitCodeProvider::process_paths (the order of the non-recursive result is
\* the map's; it is given here in insertion order)
process_paths(paths, parent_path, recursive) ==
    LET prefix == Prefix(parent_path)
        filtered == FilterPaths(paths, prefix)
    IN IF recursive
       THEN [i \in 1..Len(filtered) |-> path_to_tree_item(filtered[i])]
       ELSE Children(filtered, prefix, <<>>)

----------------------------------------------------------------------------
(* HTTP responses and the error classifier (GitCodeProvider::handle_response) *)

\* A response as the provider sees it.  sent = FALSE: the request failed in
\* transport (reqwest::Error).  json: whether the body deserializes
\* ("valid"), does not ("invalid"), is JSON without any commit sha ("nosha",
\* branch responses only), or is JSON whose commit has a sha but no author,
\* committer or date ("noauthor").  applied: the forge carried the request out.
Response(status, text, json, sha, paths, number, applied) ==
    [sent |-> TRUE, status |-> status, text |-> text, json |-> json, sha |-> sha,
     paths |-> paths, number |-> number, applied |-> applied]

TransportFailure ==
    [sent |-> FALSE, status |-> 0, text |-> <<>>, json |-> "invalid", sha |-> 0,
     paths |-> <<>>, number |-> 0, applied |-> FALSE]

\* an error response with body text
ErrorResponse(status, text) == Response(status, text, "invalid", 0, <<>>, 0, FALSE)

TextRate == <<"R","a","t","e"," ","l","i","m","i","t">>
TextDenied == <<"d","e","n","i","e","d">>
TextMissing == <<"n","o","n","e">>
TextExists == <<"e","x","i","s","t","s">>

\* StatusCode::is_success
IsSuccess(status) == status >= 200 /\ status <= 299

\* From<reqwest::Error> for VktError
NetworkError == Err("Network", <<"error sending request">>)

\* handle_response never looking at the body of a 403
handle_response_ForbiddenIsDenied(response) ==
    IF IsSuccess(response.status)
    THEN IF response.json = "invalid"
         THEN Err("Api", <<"Failed to parse response: ">>)
         ELSE Ok(response.sha, response.paths)
    ELSE LET error_text == response.text
         IN CASE response.status = 401 ->
                   Err("AuthInvalid", <<"Authentication failed: ">> \o error_text)
              [] response.status = 403 ->
                   Err("PermissionDenied", <<"Permission denied: ">> \o error_text)
              [] response.status = 404 ->
                   Err("ApiNotFound", <<"Resource not found: ">> \o error_text)
              [] response.status = 409 ->
                   Err("Conflict", <<"Resource conflict: ">> \o error_text)
              [] OTHER ->
                   Err("Api", <<"API error (HTTP ">> \o Decimal(response.status)
                              \o <<"): ">> \o error_text)

\* GitCodeProvider::handle_response
handle_response(response) ==
    IF IsSuccess(response.status)
    THEN IF response.json = "invalid"
         THEN Err("Api", <<"Failed to parse response: ">>)
         ELSE Ok(response.sha, response.paths)
    ELSE LET error_text == response.text
         IN CASE response.status = 401 ->
                   Err("AuthInvalid", <<"Authentication failed: ">> \o error_text)
              [] response.status = 403 ->
                   IF Contains(ToLowercase(error_text), <<"r","a","t","e">>)
                      \/ Contains(ToLowercase(error_text), <<"l","i","m","i","t">>)
                   THEN Err("RateLimited", <<"Rate limited: ">> \o error_text)
                   ELSE Err("PermissionDenied", <<"Permission denied: ">> \o error_text)
              [] response.status = 404 ->
                   Err("ApiNotFound", <<"Resource not found: ">> \o error_text)
              [] response.status = 409 ->
                   Err("Conflict", <<"Resource conflict: ">> \o error_text)
              [] OTHER ->
                   Err("Api", <<"API error (HTTP ">> \o Decimal(response.status)
                              \o <<"): ">> \o error_text)

\* .send().await? followed by handle_response
SendAndHandle(response) ==
    IF ~response.sent THEN NetworkError ELSE handle_response(response)

----------------------------------------------------------------------------
(* The forge behind the REST API: what it answers, given its state *)

HasBranch(b) == b \in DOMAIN remoteFiles

\* the sha of path on branch b, 0 when the branch has no such file
FileSha(b, path) ==
    IF HasBranch(b) /\ \E i \in 1..Len(remoteFiles[b]) : remoteFiles[b][i].path = path
    THEN remoteFiles[b][CHOOSE i \in 1..Len(remoteFiles[b]) :
                            remoteFiles[b][i].path = path].sha
    ELSE 0

\* a sha no file of the forge has yet
FreshSha ==
    LET used == {0} \cup UNION {{remoteFiles[b][i].sha : i \in 1..Len(remoteFiles[b])} :
                                b \in DOMAIN remoteFiles}
    IN 1 + CHOOSE m \in used : \A u \in used : u <= m

\* GET repos/{owner}/{repo}/contents/{path}?ref={ref}
ForgeGetContents(path, ref) ==
    IF FileSha(ref, path) # 0
    THEN {Response(200, <<>>, "valid", FileSha(ref, path), <<>>, 0, FALSE)}
    ELSE {ErrorResponse(404, TextMissing)}

\* GET repos/{owner}/{repo}/file_list?ref_name={ref}: a ref that does not
\* exist is answered with 404 or with an empty list
ForgeFileList(ref) ==
    IF HasBranch(ref)
    THEN {Response(200, <<>>, "valid", 0,
                   [i \in 1..Len(remoteFiles[ref]) |-> remoteFiles[ref][i].path], 0, FALSE)}
    ELSE {ErrorResponse(404, TextMissing), Response(200, <<>>, "valid", 0, <<>>, 0, FALSE)}

\* GET repos/{owner}/{repo}/file_list?file_name={name}&ref_name={ref}: the
\* paths of the ref that the name searched for is part of
ForgeFileSearch(file_name, ref) ==
    IF HasBranch(ref)
    THEN {Response(200, <<>>, "valid", 0,
                   SelectSeq([i \in 1..Len(remoteFiles[ref]) |-> remoteFiles[ref][i].path],
                             LAMBDA p : Contains(p, file_name)),
                   0, FALSE)}
    ELSE {ErrorResponse(404, TextMissing), Response(200, <<>>, "valid", 0, <<>>, 0, FALSE)}

\* POST repos/{owner}/{repo}/branches: a duplicate name is rejected with 409
\* or 422; the answer to a created branch may carry the commit sha or not
ForgePostBranch(branch_name, refs) ==
    IF ~HasBranch(refs) THEN {ErrorResponse(404, TextMissing)}
    ELSE IF HasBranch(branch_name)
         THEN {ErrorResponse(409, TextExists), ErrorResponse(422, TextExists)}
         ELSE {Response(201, <<>>, "valid", 0, <<>>, 0, TRUE),
               Response(201, <<>>, "nosha", 0, <<>>, 0, TRUE),
               Response(201, <<>>, "noauthor", 0, <<>>, 0, TRUE)}

\* POST (create) / PUT (update) repos/{owner}/{repo}/contents/{path}; the
\* commit of the answer may come with or without its author and dates
ForgeWriteContents(method, path, branch, sha) ==
    IF ~HasBranch(branch) THEN {ErrorResponse(404, TextMissing)}
    ELSE IF method = "POST"
         THEN IF FileSha(branch, path) # 0
              THEN {ErrorResponse(400, TextExists)}
              ELSE {Response(201, <<>>, "valid", FreshSha, <<>>, 0, TRUE),
                    Response(201, <<>>, "noauthor", FreshSha, <<>>, 0, TRUE)}
         ELSE IF FileSha(branch, path) = 0 THEN {ErrorResponse(404, TextMissing)}
              ELSE IF FileSha(branch, path) # sha THEN {ErrorResponse(409, TextExists)}
              ELSE {Response(200, <<>>, "valid", FreshSha, <<>>, 0, TRUE),
                    Response(200, <<>>, "noauthor", FreshSha, <<>>, 0, TRUE)}

\* POST repos/{owner}/{repo}/pulls
ForgePostPull(head, base) ==
    IF HasBranch(head) /\ HasBranch(base) /\ head # base
    THEN {Response(201, <<>>, "valid", 0, <<>>, Len(remotePRs) + 1, TRUE)}
    ELSE {ErrorResponse(422, TextMissing)}

\* POST repos/{owner}/{repo}/pulls/{pr_number}/requested_reviewers: an
\* instance may not support the endpoint at all
ForgePostReviewers(pr_number) ==
    IF pr_number \in 1..Len(remotePRs)
    THEN {Response(201, <<>>, "valid", 0, <<>>, pr_number, TRUE),
          ErrorResponse(404, TextMissing), ErrorResponse(405, TextMissing)}
    ELSE {ErrorResponse(404, TextMissing)}

\* answers any request can get, whatever the state of the forge
Faults ==
    {TransportFailure,
     ErrorResponse(401, TextDenied),
     ErrorResponse(403, TextRate),
     ErrorResponse(403, TextDenied),
     ErrorResponse(429, TextRate),
     ErrorResponse(500, TextDenied),
     Response(200, <<>>, "invalid", 0, <<>>, 0, FALSE)}

\* the forge's state after a branch was created
BranchCreated(branch_name, refs) ==
    [b \in DOMAIN remoteFiles \cup {branch_name} |->
        IF b = branch_name THEN remoteFiles[refs] ELSE remoteFiles[b]]

\* the forge's state after a file was written
FileWritten(path, branch, new_sha) ==
    [remoteFiles EXCEPT ![branch] =
        IF FileSha(branch, path) # 0
        THEN [i \in 1..Len(@) |-> IF @[i].path = path
                                  THEN [path |-> path, sha |-> new_sha] ELSE @[i]]
        ELSE Append(@, [path |-> path, sha |-> new_sha])]

----------------------------------------------------------------------------
(* Provider operations (impl ForgeProvider for GitCodeProvider), each as the *)
(* value it returns for the response(s) it gets                             *)

\* an entry of http: the request (sha = 0: the body has no sha field) and, of
\* its answer, the status (0: none came), the sha it carries (0: none), the
\* text of its body and what JSON the body is
Request(method, endpoint, ref, sha, response) ==
    [method |-> method, endpoint |-> endpoint, ref |-> ref, sha |-> sha,
     status |-> response.status, rsha |-> response.sha, text |-> response.text,
     body |-> response.json]

\* an entry of calls: the operation, its two reference arguments and what it
\* returned (items: the entries of a listing, n: their number)
Call(op, a, b, res) ==
    [op |-> op, a |-> a, b |-> b, res |-> res.kind, msg |-> res.msg,
     sha |-> res.sha, n |-> Len(res.items), items |-> res.items]

\* GitCodeProvider::get_file_info
get_file_info(file_path, response) ==
    IF ~response.sent THEN NetworkError
    ELSE IF response.status = 404
         THEN Err("ApiNotFound", <<"File not found: ">> \o file_path)
         ELSE handle_response(response)

\* ForgeProvider::file_exists, the default implementation, for what
\* get_file_info returned
ForgeProvider_file_exists(info) ==
    IF info.ok THEN OkBool(TRUE)
    ELSE IF is_not_found(info) THEN OkBool(FALSE)
    ELSE info

\* file_exists taking any listing that came back for a hit
file_exists_AnyListingIsHit(file_path, response) ==
    IF ~response.sent THEN NetworkError
    ELSE IF response.status = 404 THEN OkBool(FALSE)
    ELSE LET paths == handle_response(response)
         IN IF ~paths.ok THEN paths ELSE OkBool(TRUE)

\* GitCodeProvider::file_exists
file_exists(file_path, response) ==
    IF ~response.sent THEN NetworkError
    ELSE IF response.status = 404 THEN OkBool(FALSE)
    ELSE LET paths == handle_response(response)
         IN IF ~paths.ok THEN paths
            ELSE OkBool(\E i \in 1..Len(paths.items) :
                           TrimEndMatches(paths.items[i], "/")
                               = TrimEndMatches(file_path, "/"))

\* GitCodeProvider::list_repository_tree
list_repository_tree(path, recursive, response) ==
    LET paths == SendAndHandle(response)
    IN IF paths.ok THEN Ok(0, process_paths(paths.items, path, recursive)) ELSE paths

\* GitCodeProvider::list_repository_tree: what it can return, the entries of
\* a non-recursive listing coming in any order
ListRepositoryTree(path, recursive, response) ==
    LET tree == list_repository_tree(path, recursive, response)
    IN IF tree.ok /\ ~recursive THEN {Ok(0, items) : items \in IntoValues(tree.items)}
       ELSE {tree}

\* create_branch taking the rejection of a duplicate name for success
create_branch_DuplicateOk(response) ==
    IF response.sent /\ response.status \in {409, 422} THEN Ok(0, <<>>)
    ELSE LET branch_info == SendAndHandle(response)
         IN IF ~branch_info.ok THEN branch_info
            ELSE IF response.json = "nosha"
                 THEN Err("Api", <<"Could not extract commit SHA from branch response">>)
                 ELSE Ok(0, <<>>)

\* GitCodeProvider::create_branch
create_branch(response) ==
    LET branch_info == SendAndHandle(response)
    IN IF ~branch_info.ok THEN branch_info
       ELSE IF response.json = "nosha"
            THEN Err("Api", <<"Could not extract commit SHA from branch response">>)
            ELSE Ok(0, <<>>)

\* .send().await? followed by handle_response::<GitCodeCommitResponse>: the
\* commit's author and committer, with their dates, are required fields
HandleCommitResponse(response) ==
    IF response.sent /\ IsSuccess(response.status) /\ response.json = "noauthor"
    THEN Err("Api", <<"Failed to parse response: ">>)
    ELSE SendAndHandle(response)

\* GitCodeProvider::create_or_update_file: existing_sha (0 for None)
ExistingSha(on_target, on_default) ==
    IF on_target.ok THEN on_target.sha
    ELSE IF on_default.ok THEN on_default.sha
    ELSE 0

\* GitCodeProvider::create_or_update_file: whether the default branch is probed
ProbesDefault(on_target) == ~on_target.ok

\* WriteMethod always creating
WriteMethod_AlwaysPost(existing_sha) == "POST"

\* GitCodeProvider::create_or_update_file: the method of the request
WriteMethod(existing_sha) == IF existing_sha # 0 THEN "PUT" ELSE "POST"

\* GitCodeProvider::create_pull_request
create_pull_request(response) ==
    LET pull_response == SendAndHandle(response)
    IN IF pull_response.ok THEN Ok(0, <<>>) ELSE pull_response

\* assign_reviewers returning the classified error of a refused request
assign_reviewers_Strict(response) ==
    LET handled == SendAndHandle(response)
    IN IF handled.ok THEN Ok(0, <<>>) ELSE handled

\* GitCodeProvider::assign_reviewers
assign_reviewers(response) ==
    IF ~response.sent THEN NetworkError
    ELSE IF IsSuccess(response.status)
         THEN (IF handle_response(response).ok THEN Ok(0, <<>>)
               ELSE handle_response(response))
         ELSE Ok(0, <<>>)

----------------------------------------------------------------------------
(* Provider factory (src/api/factory.rs, src/config/mod.rs) *)

Gitcode == <<"G","i","t","c","o","d","e">>
GitLab == <<"G","i","t","L","a","b">>
GitHub == <<"g","i","t","h","u","b">>
Gitee == <<"g","i","t","e","e">>

\* ProviderType::parse
ProviderTypeParse(s) ==
    LET l == ToLowercase(s)
    IN IF l = <<"g","i","t","c","o","d","e">> THEN "GitCode"
       ELSE IF l = <<"g","i","t","l","a","b">> THEN "GitLab"
       ELSE IF l = <<"g","i","t","h","u","b">> THEN "GitHub"
       ELSE "Unknown"

\* GitCodeProvider::parse_project_id: split('/') must give two parts
parse_project_id(project_id) ==
    IF Len(SelectSeq(project_id, LAMBDA c : c = "/")) = 1
    THEN Ok(0, <<>>)
    ELSE Err("Config", <<"Project ID format should be 'owner/repo'">>)

\* create_provider building the GitCode provider for GitLab too
create_provider_GitLabBuilt(cfg) ==
    CASE ProviderTypeParse(cfg.provider) \in {"GitCode", "GitLab"} ->
           parse_project_id(cfg.project_id)
      [] ProviderTypeParse(cfg.provider) = "GitHub" ->
           Err("Config", <<"GitHub provider not yet implemented">>)
      [] OTHER ->
           Err("Config", <<"Unknown provider: ">> \o ToLowercase(cfg.provider)
                         \o <<". Supported providers: GitCode, GitLab, GitHub">>)

\* factory::create_provider (ApiClient::new returns what it returns)
create_provider(cfg) ==
    CASE ProviderTypeParse(cfg.provider) = "GitCode" -> parse_project_id(cfg.project_id)
      [] ProviderTypeParse(cfg.provider) = "GitLab" ->
           Err("Config", <<"GitLab provider not yet implemented">>)
      [] ProviderTypeParse(cfg.provider) = "GitHub" ->
           Err("Config", <<"GitHub provider not yet implemented">>)
      [] OTHER ->
           Err("Config", <<"Unknown provider: ">> \o ToLowercase(cfg.provider)
                         \o <<". Supported providers: GitCode, GitLab, GitHub">>)

----------------------------------------------------------------------------
(* The submit command (src/commands/submit.rs) *)

BranchPrefix == <<"f","e","a","t","/","v","k","t","-","s","u","b","m","i","t","-">>

\* generate_branch_name leaving the separators of the word in place
generate_branch_name_SlashKept(branch, msg, timestamp) ==
    IF branch.some THEN branch.val
    ELSE LET word == IF FirstWord(msg) = <<>> THEN <<"s","u","b","m","i","t">>
                     ELSE FirstWord(msg)
         IN BranchPrefix \o Decimal(timestamp) \o <<"-">>
            \o ToLowercase(Replace(word, ":", <<>>))

\* SubmitCommand::generate_branch_name
generate_branch_name(branch, msg, timestamp) ==
    IF branch.some THEN branch.val
    ELSE LET word == IF FirstWord(msg) = <<>> THEN <<"s","u","b","m","i","t">>
                     ELSE FirstWord(msg)
             msg_prefix == ToLowercase(Replace(Replace(word, ":", <<>>), "/", <<"-">>))
         IN BranchPrefix \o Decimal(timestamp) \o <<"-">> \o msg_prefix

\* CollisionVerdict without the abort on an existing file
CollisionVerdict_NoAbort(info, force, path) ==
    IF ~info.ok /\ ~is_not_found(info) THEN info ELSE Pending

\* CollisionVerdict taking any failed probe for "file absent"
CollisionVerdict_AnyErrorAbsent(info, force, path) ==
    IF info.ok /\ ~force
    THEN Err("Validation", <<"Remote file already exists: ">> \o path
                           \o <<". Use --force to overwrite">>)
    ELSE Pending

\* execute, step 4: what the collision check decides; Pending is "go on"
CollisionVerdict(info, force, path) ==
    IF ~info.ok /\ ~is_not_found(info) THEN info
    ELSE IF info.ok /\ ~force
         THEN Err("Validation", <<"Remote file already exists: ">> \o path
                                \o <<". Use --force to overwrite">>)
         ELSE Pending

\* ReadinessVerdict accepting an empty listing
ReadinessVerdict_EmptyAccepted(tree) ==
    IF ~tree.ok /\ ~is_not_found(tree) THEN tree
    ELSE IF ~tree.ok
         THEN Err("Validation",
                  <<"Repository not initialized. Please create a README file via web UI first.">>)
         ELSE Pending

\* execute, step 5: what the readiness check decides; Pending is "go on"
ReadinessVerdict(tree) ==
    IF ~tree.ok /\ ~is_not_found(tree) THEN tree
    ELSE IF ~(tree.ok /\ tree.items # <<>>)
         THEN Err("Validation",
                  <<"Repository not initialized. Please create a README file via web UI first.">>)
         ELSE Pending

\* create_or_update_file sending its write to the default branch
create_or_update_file_OnDefault(file_path, branch, default_branch, on_target, on_default, written) ==
    LET target_info == get_file_info(file_path, on_target)
        default_info == get_file_info(file_path, on_default)
        existing_sha == ExistingSha(target_info, default_info)
        commit_response == HandleCommitResponse(written)
    IN [requests |->
            <<Request("GET", "contents", branch, 0, on_target)>>
            \o (IF ProbesDefault(target_info)
                THEN <<Request("GET", "contents", default_branch, 0, on_default)>>
                ELSE <<>>)
            \o <<Request(WriteMethod(existing_sha), "contents", default_branch,
                         existing_sha, written)>>,
        result |-> IF commit_response.ok THEN Ok(written.sha, <<>>) ELSE commit_response]

\* GitCodeProvider::create_or_update_file, for the answers to its requests:
\* on_target and on_default to the two probes, written to the upload
create_or_update_file(file_path, branch, default_branch, on_target, on_default, written) ==
    LET target_info == get_file_info(file_path, on_target)
        default_info == get_file_info(file_path, on_default)
        existing_sha == ExistingSha(target_info, default_info)
        method == WriteMethod(existing_sha)
        commit_response == HandleCommitResponse(written)
    IN [requests |->
            <<Request("GET", "contents", branch, 0, on_target)>>
            \o (IF ProbesDefault(target_info)
                THEN <<Request("GET", "contents", default_branch, 0, on_default)>>
                ELSE <<>>)
            \o <<Request(method, "contents", branch, existing_sha, written)>>,
        result |-> IF commit_response.ok THEN Ok(written.sha, <<>>) ELSE commit_response]

\* IsDryRun with the flag ignored
IsDryRun_Ignored(a) == FALSE

\* execute, step 6: whether the run stops as a dry run
IsDryRun(a) == a.dry_run

\* Propagate with the error of a provider call dropped
Propagate_Never(r) == FALSE

\* the ? after a provider call: whether execute returns what the call returned
Propagate(r) == ~r.ok

\* return from execute
Return(r) == pc' = "done" /\ result' = r

\* execute: lines 96-121, up to the target path
Begin ==
    /\ pc = "start"
    /\ LET api == IF ~config.load_ok THEN Err("Config", <<"Cannot read configuration">>)
                  ELSE create_provider(config)
           file_name == LastSegment(args.local_path)
       IN IF ~api.ok THEN Return(api) /\ UNCHANGED target_path
          ELSE IF args.local = "missing"
          THEN /\ Return(Err("Validation", <<"File does not exist: ">> \o args.local_path))
               /\ UNCHANGED target_path
          ELSE IF args.local = "dir"
          THEN /\ Return(Err("Validation",
                    <<"Directory submission not yet supported, please specify a single file">>))
               /\ UNCHANGED target_path
          ELSE IF file_name = <<".", ".">>
          THEN Return(Err("Validation", <<"Invalid filename">>)) /\ UNCHANGED target_path
          ELSE /\ target_path' = TrimEndMatches(args.target, "/") \o <<"/">> \o file_name
               /\ pc' = "collision"
               /\ UNCHANGED result
    /\ UNCHANGED <<args, config, run, clock, target_branch, calls, http,
                   remoteFiles, remotePRs, remoteLog>>
    /\ UNCHANGED <<tasks, results, disk>>

\* execute: step 4, the remote collision check
CollisionCheck ==
    /\ pc = "collision"
    /\ \E response \in ForgeGetContents(target_path, config.default_branch) \cup Faults :
         LET info == get_file_info(target_path, response)
             verdict == CollisionVerdict(info, args.force, target_path)
         IN /\ http' = Append(http, Request("GET", "contents", config.default_branch,
                                            0, response))
            /\ calls' = Append(calls, Call("get_file_info", config.default_branch,
                                           target_path, info))
            /\ IF verdict = Pending THEN pc' = "readiness" /\ UNCHANGED result
               ELSE Return(verdict)
    /\ UNCHANGED <<args, config, run, clock, target_path, target_branch,
                   remoteFiles, remotePRs, remoteLog>>
    /\ UNCHANGED <<tasks, results, disk>>

\* execute: step 5, the readiness check, then the branch name and step 6,
\* the dry run
ReadinessCheck ==
    /\ pc = "readiness"
    /\ \E response \in ForgeFileList(config.default_branch) \cup Faults :
       \E tree \in ListRepositoryTree(None, FALSE, response) :
         LET verdict == ReadinessVerdict(tree)
         IN /\ http' = Append(http, Request("GET", "file_list", config.default_branch,
                                            0, response))
            /\ calls' = Append(calls, Call("list_repository_tree", config.default_branch,
                                           <<>>, tree))
            /\ IF verdict # Pending THEN Return(verdict) /\ UNCHANGED target_branch
               ELSE /\ target_branch' = generate_branch_name(args.branch, args.msg, clock)
                    /\ IF IsDryRun(args) THEN Return(Ok(0, <<>>))
                       ELSE pc' = "create_branch" /\ UNCHANGED result
    /\ UNCHANGED <<args, config, run, clock, target_path,
                   remoteFiles, remotePRs, remoteLog>>
    /\ UNCHANGED <<tasks, results, disk>>

\* execute: step 7, create the branch
CreateBranch ==
    /\ pc = "create_branch"
    /\ \E response \in ForgePostBranch(target_branch, config.default_branch) \cup Faults :
         LET branch == create_branch(response)
         IN /\ http' = Append(http, Request("POST", "branches", target_branch, 0, response))
            /\ calls' = Append(calls, Call("create_branch", target_branch,
                                           config.default_branch, branch))
            /\ IF response.applied
               THEN /\ remoteFiles' = BranchCreated(target_branch, config.default_branch)
                    /\ remoteLog' = Append(remoteLog, [op |-> "branch", branch |-> target_branch])
               ELSE UNCHANGED <<remoteFiles, remoteLog>>
            /\ IF Propagate(branch) THEN Return(branch)
               ELSE pc' = "upload" /\ UNCHANGED result
    /\ UNCHANGED <<args, config, run, clock, target_path, target_branch, remotePRs>>
    /\ UNCHANGED <<tasks, results, disk>>

\* execute: steps 8-10, read the local file and upload it
Upload ==
    /\ pc = "upload"
    /\ \/ /\ Return(Err("Io", <<"failed to read ">> \o args.local_path))
          /\ UNCHANGED <<http, calls, remoteFiles, remoteLog>>
       \/ \E on_target \in ForgeGetContents(target_path, target_branch) \cup Faults :
          \E on_default \in
                IF ProbesDefault(get_file_info(target_path, on_target))
                THEN ForgeGetContents(target_path, config.default_branch) \cup Faults
                ELSE {TransportFailure} :
          \E written \in
                ForgeWriteContents(
                    WriteMethod(ExistingSha(get_file_info(target_path, on_target),
                                            get_file_info(target_path, on_default))),
                    target_path, target_branch,
                    ExistingSha(get_file_info(target_path, on_target),
                                get_file_info(target_path, on_default))) \cup Faults :
            LET up == create_or_update_file(target_path, target_branch,
                                            config.default_branch,
                                            on_target, on_default, written)
            IN /\ http' = http \o up.requests
               /\ calls' = Append(calls, Call("create_or_update_file", target_branch,
                                              target_path, up.result))
               /\ IF written.applied
                  THEN /\ remoteFiles' = FileWritten(target_path, target_branch, written.sha)
                       /\ remoteLog' = Append(remoteLog,
                                              [op |-> "commit", branch |-> target_branch])
                  ELSE UNCHANGED <<remoteFiles, remoteLog>>
               /\ IF Propagate(up.result) THEN Return(up.result)
                  ELSE pc' = "create_pr" /\ UNCHANGED result
    /\ UNCHANGED <<args, config, run, clock, target_path, target_branch, remotePRs>>
    /\ UNCHANGED <<tasks, results, disk>>

\* execute: step 11, create the pull request, and step 13, report
CreatePullRequest ==
    /\ pc = "create_pr"
    /\ \E response \in ForgePostPull(target_branch, config.default_branch) \cup Faults :
         LET pr == create_pull_request(response)
         IN /\ http' = Append(http, Request("POST", "pulls", target_branch, 0, response))
            /\ calls' = Append(calls, Call("create_pull_request", target_branch,
                                           config.default_branch, pr))
            /\ IF response.applied
               THEN /\ remotePRs' = Append(remotePRs,
                                           [number |-> response.number,
                                            head |-> target_branch,
                                            base |-> config.default_branch,
                                            reviewers |-> <<>>])
                    /\ remoteLog' = Append(remoteLog, [op |-> "pull", branch |-> target_branch])
               ELSE UNCHANGED <<remotePRs, remoteLog>>
            /\ IF Propagate(pr) THEN Return(pr) ELSE Return(Ok(0, <<>>))
    /\ UNCHANGED <<args, config, run, clock, target_path, target_branch, remoteFiles>>
    /\ UNCHANGED <<tasks, results, disk>>

\* main: the command is invoked again with the same arguments, at the same
\* second or later
Reinvoke ==
    /\ pc = "done"
    /\ run < MaxRuns
    /\ \E dt \in {0, 1} : clock + dt <= MaxClock /\ clock' = clock + dt
    /\ run' = run + 1
    /\ pc' = "start"
    /\ result' = Pending
    /\ calls' = <<>>
    /\ http' = <<>>
    /\ target_path' = <<>>
    /\ target_branch' = <<>>
    /\ UNCHANGED <<args, config, remoteFiles, remotePRs, remoteLog>>
    /\ UNCHANGED <<tasks, results, disk>>

\* what the forge can hold before the first invocation: no commit at all, a
\* default branch without or with the target file, a branch named as --branch
Main == <<"m","a","i","n">>
Readme == <<"R","E","A","D","M","E">>
Custom == <<"c","/","b">>

InitialForges ==
    {<<>>,
     [b \in {Main} |-> <<[path |-> Readme, sha |-> 1]>>],
     [b \in {Main} |-> <<[path |-> Readme, sha |-> 1],
                         [path |-> <<"s","/","t">>, sha |-> 2]>>],
     [b \in {Main, Custom} |-> <<[path |-> Readme, sha |-> 1]>>]}

Init ==
    /\ args \in [local : {"missing", "dir", "file"},
                 local_path : {<<".","/","t">>},
                 target : {<<"s","/">>},
                 msg : {<<"F","i","x",":"," ","a">>},
                 force : BOOLEAN,
                 dry_run : BOOLEAN,
                 branch : {None, Some(Custom), Some(Main)}]
    /\ config \in [load_ok : BOOLEAN,
                   provider : {Gitcode, GitLab, GitHub, Gitee},
                   project_id : {<<"o","/","r">>},
                   default_branch : {Main}]
    /\ pc = "start"
    /\ run = 1
    /\ clock = 1
    /\ target_path = <<>>
    /\ target_branch = <<>>
    /\ result = Pending
    /\ calls = <<>>
    /\ http = <<>>
    /\ remoteFiles \in InitialForges
    /\ remotePRs = <<>>
    /\ remoteLog = <<>>
    /\ tasks = <<>>
    /\ results = <<>>
    /\ disk = {}

Next ==
    \/ Begin
    \/ CollisionCheck
    \/ ReadinessCheck
    \/ CreateBranch
    \/ Upload
    \/ CreatePullRequest
    \/ Reinvoke

Spec == Init /\ [][Next]_vars

----------------------------------------------------------------------------
(* The provider called directly through ApiClient (src/api/compat.rs): one  *)
(* operation at a time, with any arguments, against any state of the forge  *)

MaxApiCalls == 2

SomeFile == <<"s","/","t">>
NoBranch == <<"x">>

ApiForges ==
    {[b \in {Main} |-> <<[path |-> Readme, sha |-> 1]>>],
     [b \in {Main, Custom} |->
        IF b = Main THEN <<[path |-> Readme, sha |-> 1], [path |-> SomeFile, sha |-> 2]>>
        ELSE <<[path |-> Readme, sha |-> 1]>>],
     [b \in {Main, Custom} |->
        IF b = Main THEN <<[path |-> Readme, sha |-> 1]>>
        ELSE <<[path |-> Readme, sha |-> 1], [path |-> SomeFile, sha |-> 3]>>],
     [b \in {Main, Custom} |->
        IF b = Main THEN <<[path |-> Readme, sha |-> 1], [path |-> SomeFile, sha |-> 2]>>
        ELSE <<[path |-> Readme, sha |-> 1], [path |-> SomeFile, sha |-> 3]>>]}

\* the caller has the value returned
ApiReturn(r) == pc' = "api_done" /\ result' = r /\ run' = run + 1

ApiCall == pc = "api" /\ run < MaxApiCalls

\* ApiClient::create_branch
ApiCreateBranch ==
    /\ ApiCall
    /\ \E branch_name \in {Custom, NoBranch}, source_branch \in {Main, NoBranch} :
       \E response \in ForgePostBranch(branch_name, source_branch) \cup Faults :
         LET branch == create_branch(response)
         IN /\ http' = <<Request("POST", "branches", branch_name, 0, response)>>
            /\ calls' = <<Call("create_branch", branch_name, source_branch, branch)>>
            /\ IF response.applied
               THEN /\ remoteFiles' = BranchCreated(branch_name, source_branch)
                    /\ remoteLog' = Append(remoteLog, [op |-> "branch", branch |-> branch_name])
               ELSE UNCHANGED <<remoteFiles, remoteLog>>
            /\ ApiReturn(branch)
    /\ UNCHANGED <<args, config, clock, target_path, target_branch, remotePRs>>
    /\ UNCHANGED <<tasks, results, disk>>

\* ApiClient::create_or_update_file
ApiCreateOrUpdateFile ==
    /\ ApiCall
    /\ \E file_path \in {SomeFile}, branch \in {Custom, NoBranch} :
       \E on_target \in ForgeGetContents(file_path, branch) \cup Faults :
       \E on_default \in
             IF ProbesDefault(get_file_info(file_path, on_target))
             THEN ForgeGetContents(file_path, config.default_branch) \cup Faults
             ELSE {TransportFailure} :
       \E written \in
             ForgeWriteContents(
                 WriteMethod(ExistingSha(get_file_info(file_path, on_target),
                                         get_file_info(file_path, on_default))),
                 file_path, branch,
                 ExistingSha(get_file_info(file_path, on_target),
                             get_file_info(file_path, on_default))) \cup Faults :
         LET up == create_or_update_file(file_path, branch, config.default_branch,
                                         on_target, on_default, written)
         IN /\ http' = up.requests
            /\ calls' = <<Call("create_or_update_file", branch, file_path, up.result)>>
            /\ IF written.applied
               THEN /\ remoteFiles' = FileWritten(file_path, branch, written.sha)
                    /\ remoteLog' = Append(remoteLog, [op |-> "commit", branch |-> branch])
               ELSE UNCHANGED <<remoteFiles, remoteLog>>
            /\ ApiReturn(up.result)
    /\ UNCHANGED <<args, config, clock, target_path, target_branch, remotePRs>>
    /\ UNCHANGED <<tasks, results, disk>>

\* ApiClient::create_pull_request
ApiCreatePullRequest ==
    /\ ApiCall
    /\ \E head_branch \in {Custom, NoBranch} :
       \E response \in ForgePostPull(head_branch, config.default_branch) \cup Faults :
         LET pr == create_pull_request(response)
         IN /\ http' = <<Request("POST", "pulls", head_branch, 0, response)>>
            /\ calls' = <<Call("create_pull_request", head_branch,
                               config.default_branch, pr)>>
            /\ IF response.applied
               THEN /\ remotePRs' = Append(remotePRs,
                                           [number |-> response.number,
                                            head |-> head_branch,
                                            base |-> config.default_branch,
                                            reviewers |-> <<>>])
                    /\ remoteLog' = Append(remoteLog, [op |-> "pull", branch |-> head_branch])
               ELSE UNCHANGED <<remotePRs, remoteLog>>
            /\ ApiReturn(pr)
    /\ UNCHANGED <<args, config, clock, target_path, target_branch, remoteFiles>>
    /\ UNCHANGED <<tasks, results, disk>>

\* ApiClient::assign_reviewers
ApiAssignReviewers ==
    /\ ApiCall
    /\ \E pr_number \in 1..(Len(remotePRs) + 1), reviewers \in {<<"r">>} :
       \E response \in ForgePostReviewers(pr_number) \cup Faults :
         LET assigned == assign_reviewers(response)
         IN /\ http' = <<Request("POST", "requested_reviewers", Decimal(pr_number),
                                 0, response)>>
            /\ calls' = <<Call("assign_reviewers", Decimal(pr_number), reviewers, assigned)>>
            /\ remotePRs' = IF response.applied
                            THEN [remotePRs EXCEPT ![pr_number].reviewers = reviewers]
                            ELSE remotePRs
            /\ ApiReturn(assigned)
    /\ UNCHANGED <<args, config, clock, target_path, target_branch, remoteFiles, remoteLog>>
    /\ UNCHANGED <<tasks, results, disk>>

\* file_exists of the GitCode provider
ApiFileExists ==
    /\ ApiCall
    /\ \E file_path \in {SomeFile}, ref_branch \in {Main, Custom, NoBranch} :
       \E response \in ForgeFileSearch(file_path, ref_branch) \cup Faults :
         LET exists == file_exists(file_path, response)
         IN /\ http' = <<Request("GET", "file_list", ref_branch, 0, response)>>
            /\ calls' = <<Call("file_exists", ref_branch, file_path, exists)>>
            /\ ApiReturn(exists)
    /\ UNCHANGED <<args, config, clock, target_path, target_branch,
                   remoteFiles, remotePRs, remoteLog>>
    /\ UNCHANGED <<tasks, results, disk>>

\* file_exists of a provider that keeps the trait's default implementation,
\* over get_file_info
ApiFileExistsDefault ==
    /\ ApiCall
    /\ \E file_path \in {SomeFile}, ref_branch \in {Main, Custom, NoBranch} :
       \E response \in ForgeGetContents(file_path, ref_branch) \cup Faults :
         LET info == get_file_info(file_path, response)
             exists == ForgeProvider_file_exists(info)
         IN /\ http' = <<Request("GET", "contents", ref_branch, 0, response)>>
            /\ calls' = <<Call("get_file_info", ref_branch, file_path, info),
                          Call("file_exists_default", ref_branch, file_path, exists)>>
            /\ ApiReturn(exists)
    /\ UNCHANGED <<args, config, clock, target_path, target_branch,
                   remoteFiles, remotePRs, remoteLog>>
    /\ UNCHANGED <<tasks, results, disk>>

\* the caller goes on to its next call
ApiNextCall ==
    /\ pc = "api_done"
    /\ pc' = "api"
    /\ result' = Pending
    /\ calls' = <<>>
    /\ http' = <<>>
    /\ UNCHANGED <<args, config, run, clock, target_path, target_branch,
                   remoteFiles, remotePRs, remoteLog>>
    /\ UNCHANGED <<tasks, results, disk>>

InitApi ==
    /\ args = [local |-> "file", local_path |-> <<".","/","t">>, target |-> <<"s","/">>,
               msg |-> <<"F","i","x",":"," ","a">>, force |-> FALSE, dry_run |-> FALSE,
               branch |-> None]
    /\ config = [load_ok |-> TRUE, provider |-> Gitcode, project_id |-> <<"o","/","r">>,
                 default_branch |-> Main]
    /\ pc = "api"
    /\ run = 0
    /\ clock = 1
    /\ target_path = <<>>
    /\ target_branch = <<>>
    /\ result = Pending
    /\ calls = <<>>
    /\ http = <<>>
    /\ remoteFiles \in ApiForges
    /\ remotePRs = <<>>
    /\ remoteLog = <<>>
    /\ tasks = <<>>
    /\ results = <<>>
    /\ disk = {}

NextApi ==
    \/ ApiCreateBranch
    \/ ApiCreateOrUpdateFile
    \/ ApiCreatePullRequest
    \/ ApiAssignReviewers
    \/ ApiFileExists
    \/ ApiFileExistsDefault
    \/ ApiNextCall

SpecApi == InitApi /\ [][NextApi]_vars

----------------------------------------------------------------------------
(* The list command (src/commands/list.rs): args is ListArgs, result.items  *)
(* the lines it prints                                                      *)

\* TreeItem::is_dir
is_dir(item) == item.item_type = "tree" \/ StartsWith(item.mode, <<"4">>)

\* TreeItem::is_file
is_file(item) == item.item_type = "blob" \/ StartsWith(item.mode, <<"1","0","0">>)

\* execute: the comparator of items.sort_by
SortsBefore(a, b) ==
    IF is_dir(a) # is_dir(b) THEN is_dir(a) ELSE StrLess(a.name, b.name)

\* an item put in its place among sorted ones, behind those it does not
\* sort before
Inserted(item, sorted) ==
    LET before == {i \in 1..Len(sorted) : SortsBefore(item, sorted[i])}
        at == IF before = {} THEN Len(sorted) + 1
              ELSE CHOOSE i \in before : \A j \in before : i <= j
    IN SubSeq(sorted, 1, at - 1) \o <<item>> \o SubSeq(sorted, at, Len(sorted))

RECURSIVE Sorted(_)
\* execute: items.sort_by (a stable sort)
Sorted(items) ==
    IF items = <<>> THEN <<>>
    ELSE Inserted(Last(items), Sorted(SubSeq(items, 1, Len(items) - 1)))

\* execute: the line printed for an item
Line(item, recursive) ==
    (IF recursive THEN item.path ELSE item.name)
    \o (IF is_dir(item) THEN <<"/">> ELSE <<>>)

\* execute: what is printed for the items of a listing
Printed(items, recursive) ==
    IF items = <<>> THEN << <<"INFO: Directory is empty">> >>
    ELSE [i \in 1..Len(items) |-> Line(Sorted(items)[i], recursive)]

\* execute: normalized_path
NormalizedPath == TrimMatches(args.path.val, "/")

\* execute: lines 27-36, up to the first remote call
ListBegin ==
    /\ pc = "list_start"
    /\ LET api == IF ~config.load_ok THEN Err("Config", <<"Cannot read configuration">>)
                  ELSE create_provider(config)
       IN IF ~api.ok THEN Return(api)
          ELSE /\ pc' = IF args.path.some /\ NormalizedPath # <<>>
                        THEN "list_probe" ELSE "list_tree"
               /\ UNCHANGED result
    /\ UNCHANGED <<args, config, run, clock, target_path, target_branch, calls, http,
                   remoteFiles, remotePRs, remoteLog>>
    /\ UNCHANGED <<tasks, results, disk>>

\* execute: line 38, is the path a file?  Whatever the answer but true, the
\* command goes on to the listing
ListFileExists ==
    /\ pc = "list_probe"
    /\ \E response \in ForgeFileSearch(NormalizedPath, config.default_branch) \cup Faults :
         LET exists == file_exists(NormalizedPath, response)
         IN /\ http' = Append(http, Request("GET", "file_list", config.default_branch,
                                            0, response))
            /\ calls' = Append(calls, Call("file_exists", config.default_branch,
                                           NormalizedPath, exists))
            /\ pc' = IF exists = OkBool(TRUE) THEN "list_info" ELSE "list_tree"
    /\ UNCHANGED <<args, config, run, clock, target_path, target_branch, result,
                   remoteFiles, remotePRs, remoteLog>>
    /\ UNCHANGED <<tasks, results, disk>>

\* execute: lines 41-53, the file's name is printed, or the command goes on
\* to the listing
ListGetFileInfo ==
    /\ pc = "list_info"
    /\ \E response \in ForgeGetContents(NormalizedPath, config.default_branch) \cup Faults :
         LET file_info == get_file_info(NormalizedPath, response)
         IN /\ http' = Append(http, Request("GET", "contents", config.default_branch,
                                            0, response))
            /\ calls' = Append(calls, Call("get_file_info", config.default_branch,
                                           NormalizedPath, file_info))
            /\ IF file_info.ok THEN Return(Ok(0, <<LastSegment(NormalizedPath)>>))
               ELSE pc' = "list_tree" /\ UNCHANGED result
    /\ UNCHANGED <<args, config, run, clock, target_path, target_branch,
                   remoteFiles, remotePRs, remoteLog>>
    /\ UNCHANGED <<tasks, results, disk>>

\* execute: lines 65-101, the listing, sorted and printed
ListTree ==
    /\ pc = "list_tree"
    /\ \E response \in ForgeFileList(config.default_branch) \cup Faults :
       \E items \in ListRepositoryTree(IF args.path.some THEN Some(args.path.val) ELSE None,
                                       args.recursive, response) :
            /\ http' = Append(http, Request("GET", "file_list", config.default_branch,
                                            0, response))
            /\ calls' = Append(calls, Call("list_repository_tree", config.default_branch,
                                           IF args.path.some THEN args.path.val ELSE <<>>,
                                           items))
            /\ IF ~items.ok THEN Return(items)
               ELSE Return(Ok(0, Printed(items.items, args.recursive)))
    /\ UNCHANGED <<args, config, run, clock, target_path, target_branch,
                   remoteFiles, remotePRs, remoteLog>>
    /\ UNCHANGED <<tasks, results, disk>>

\* what the default branch of the forge can hold: files at the root and in
\* directories, directories listed by themselves, a file and a directory
\* whose names begin alike
ListFiles ==
    {<< <<"s","/","m">>, <<"s","/","l">>, <<"s","/","c","/","d">>, <<"R">> >>,
     << <<"s","/">>, <<"s","/","m">>, <<"d","/">> >>,
     << <<"s">>, <<"s","x","/","a">>, <<"t","/","s","/","m">> >>,
     << <<"R">> >>,
     << <<"s","/","c","/">>, <<"s","/","c","/","d">>, <<"s","/","m">> >>}

\* the paths asked for
ListPaths ==
    {None, Some(<<>>), Some(<<"/">>), Some(<<"s">>), Some(<<"/","s">>), Some(<<"s","/">>),
     Some(<<"s","/","c">>), Some(<<"s","/","m">>), Some(<<"x">>)}

InitList ==
    /\ args \in [path : ListPaths, recursive : BOOLEAN]
    /\ config = [load_ok |-> TRUE, provider |-> Gitcode, project_id |-> <<"o","/","r">>,
                 default_branch |-> Main]
    /\ pc = "list_start"
    /\ run = 1
    /\ clock = 1
    /\ target_path = <<>>
    /\ target_branch = <<>>
    /\ result = Pending
    /\ calls = <<>>
    /\ http = <<>>
    /\ remoteFiles \in {[b \in {Main} |-> [i \in 1..Len(files) |->
                                               [path |-> files[i], sha |-> i]]] :
                         files \in ListFiles}
    /\ remotePRs = <<>>
    /\ remoteLog = <<>>
    /\ tasks = <<>>
    /\ results = <<>>
    /\ disk = {}

NextList ==
    \/ ListBegin
    \/ ListFileExists
    \/ ListGetFileInfo
    \/ ListTree

SpecList == InitList /\ [][NextList]_vars

----------------------------------------------------------------------------
(* process_paths called by itself, as the tests of gitcode/mod.rs call it,  *)
(* on any list of paths: args holds the list, the scope and the flag,       *)
(* result.items the entries returned                                        *)

MaxPaths == 3

\* the paths a list is made of: a file and a directory of the same name, a
\* file below it, a file at the root
PathPool ==
    {<<"s">>, <<"s","/">>, <<"s","/","c">>, <<"s","/","c","/","d">>, <<"R">>}

\* the lists of n paths
PathsOfLen(n) == [1..n -> PathPool]

\* provider.process_paths(paths, path, recursive)
ProcessPaths ==
    /\ pc = "paths_start"
    /\ \E items \in IF args.recursive
                     THEN {process_paths(args.paths, args.path, TRUE)}
                     ELSE IntoValues(process_paths(args.paths, args.path, FALSE)) :
         result' = Ok(0, items)
    /\ pc' = "paths_done"
    /\ UNCHANGED <<args, config, run, clock, target_path, target_branch, calls, http,
                   remoteFiles, remotePRs, remoteLog>>
    /\ UNCHANGED <<tasks, results, disk>>

InitPaths ==
    /\ args \in [paths : UNION {PathsOfLen(n) : n \in 0..MaxPaths},
                 path : {None, Some(<<"s">>), Some(<<"/","s","/">>), Some(<<"s","/","c">>)},
                 recursive : BOOLEAN]
    /\ config = [load_ok |-> TRUE, provider |-> Gitcode, project_id |-> <<"o","/","r">>,
                 default_branch |-> Main]
    /\ pc = "paths_start"
    /\ run = 1
    /\ clock = 1
    /\ target_path = <<>>
    /\ target_branch = <<>>
    /\ result = Pending
    /\ calls = <<>>
    /\ http = <<>>
    /\ remoteFiles = <<>>
    /\ remotePRs = <<>>
    /\ remoteLog = <<>>
    /\ tasks = <<>>
    /\ results = <<>>
    /\ disk = {}

NextPaths == ProcessPaths

SpecPaths == InitPaths /\ [][NextPaths]_vars

----------------------------------------------------------------------------
(* The get command (src/commands/get.rs): GetCommand::execute, with the     *)
(* download tasks of a directory running concurrently.  args is GetArgs     *)
(* (path, output, force); remoteFiles holds the default branch; the sha of  *)
(* a file stands for its content; calls holds the one call whose value the  *)
(* tasks are made from, the recursive listing of download_directory         *)

\* impl fmt::Display for VktError
Display(e) ==
    (CASE e.kind = "Config" -> <<"Config error: ">>
       [] e.kind = "Api" -> <<"API error: ">>
       [] e.kind = "Network" -> <<"Network error: ">>
       [] e.kind = "Io" -> <<"IO error: ">>
       [] e.kind = "Validation" -> <<"Validation error: ">>
       [] e.kind = "AuthInvalid" -> <<"Authentication failed: ">>
       [] e.kind = "PermissionDenied" -> <<"Permission denied: ">>
       [] e.kind = "RateLimited" -> <<"Rate limited: ">>
       [] e.kind = "ApiNotFound" -> <<"Resource not found: ">>
       [] e.kind = "Conflict" -> <<"Resource conflict: ">>) \o e.msg

\* Path::join: an absolute path replaces the base, an empty one leaves the
\* base with a separator at its end
JoinPath(base, p) ==
    IF p # <<>> /\ Head(p) = "/" THEN p
    ELSE IF base = <<>> THEN p
    ELSE IF EndsWithChar(base, "/") THEN base \o p
    ELSE base \o <<"/">> \o p

\* GetCommand::get_file_name: Path::file_name, the last component, which
\* there is none of in "", "/" and a path ending with ".."
get_file_name(remote_path) ==
    LET trimmed == TrimEndMatches(remote_path, "/")
    IN IF trimmed = <<>> \/ LastSegment(trimmed) = <<".",".">> THEN remote_path
       ELSE LastSegment(trimmed)

\* Path::exists
Exists(local_path) == TrimEndMatches(local_path, "/") \in disk

\* what the file system can do with a write to local_path: create the
\* parent directories and write, or fail at either; a path that ends with a
\* separator names no file
FsOutcomes(local_path) ==
    IF EndsWithChar(local_path, "/") THEN {"mkdir_failed", "write_failed"}
    ELSE {"written", "mkdir_failed", "write_failed"}

\* the length of the content the forge holds under a sha
ContentLen(sha) == sha

\* GET contents/{path}: the answers of get_file_info, and a body whose
\* content is not base64
ForgeGetRaw(path, ref) ==
    ForgeGetContents(path, ref)
        \cup (IF FileSha(ref, path) # 0
              THEN {Response(200, <<>>, "undecodable", FileSha(ref, path), <<>>, 0, FALSE)}
              ELSE {})

\* GitCodeProvider::get_file_content (ApiClient::get_file_raw): sha stands
\* for the bytes returned
get_file_content(file_path, response) ==
    IF ~response.sent THEN NetworkError
    ELSE IF response.status = 404
         THEN Err("ApiNotFound", <<"File not found: ">> \o file_path)
         ELSE LET content_response == handle_response(response)
              IN IF ~content_response.ok THEN content_response
                 ELSE IF response.json = "undecodable"
                      THEN Err("Api", <<"Failed to decode file content: ">>)
                      ELSE Ok(content_response.sha, <<>>)

\* struct DownloadResult
DownloadResult(path, success, size, error) ==
    [path |-> path, success |-> success, size |-> size, error |-> error]

\* a failed download
Failed(path, reason) == DownloadResult(path, FALSE, 0, Some(reason))

\* a task as spawned: at is where it stands ("spawned", "fetch", "write",
\* "done", "panicked"), size the length of the content it holds, result what
\* download_file_task returned
Task(remote_path, local_path) ==
    [remote_path |-> remote_path, local_path |-> local_path, at |-> "spawned",
     size |-> 0, result |-> Failed(remote_path, <<>>)]

\* download_directory: the local path of a file, from its name alone
LocalPath_FileNameOnly(output_dir, base_remote_dir, remote_path) ==
    JoinPath(output_dir, LastSegment(remote_path))

\* download_directory: lines 197-204, the local path of a file
LocalPath(output_dir, base_remote_dir, remote_path) ==
    LET relative_path ==
            IF StartsWith(remote_path, base_remote_dir)
            THEN TrimStartMatches(SubSeq(remote_path, Len(base_remote_dir) + 1,
                                         Len(remote_path)), "/")
            ELSE remote_path
    IN JoinPath(output_dir, relative_path)

\* download_directory: the files to download, all but the first forgotten
FilesOf_FirstOnly(items) ==
    IF SelectSeq(items, is_file) = <<>> THEN <<>> ELSE <<Head(SelectSeq(items, is_file))>>

\* download_directory: line 174, the files of the listing
FilesOf(items) == SelectSeq(items, is_file)

\* download_directory: lines 220-259, what awaiting a task gives
Joined(task) ==
    IF task.at = "panicked"
    THEN Failed(task.remote_path, <<"Task error: ">> \o <<"task panicked">>)
    ELSE task.result

\* execute: the end of the directory branch, failing when any file failed
Outcome_AnyFailureFails(rs) ==
    IF \E i \in 1..Len(rs) : ~rs[i].success
    THEN Err("Api", <<"All files failed to download">>)
    ELSE Ok(0, <<>>)

\* execute: lines 330-369 and 396, the end of the directory branch
Outcome(rs) ==
    LET success_count == Cardinality({i \in 1..Len(rs) : rs[i].success})
        fail_count == Len(rs) - success_count
    IN IF fail_count # 0 /\ success_count = 0
       THEN Err("Api", <<"All files failed to download">>)
       ELSE Ok(0, <<>>)

\* execute: output_path, of the directory and of the single file alike
OutputPath ==
    LET output_dir == IF args.output.some THEN args.output.val ELSE <<".">>
    IN JoinPath(output_dir, get_file_name(args.path))

\* execute: lines 285-286
GetBegin ==
    /\ pc = "get_start"
    /\ LET api == IF ~config.load_ok THEN Err("Config", <<"Cannot read configuration">>)
                  ELSE create_provider(config)
       IN IF ~api.ok THEN Return(api)
          ELSE pc' = "get_probe" /\ UNCHANGED result
    /\ UNCHANGED <<args, config, run, clock, target_path, target_branch, calls, http,
                   remoteFiles, remotePRs, remoteLog, tasks, results, disk>>

\* execute: line 293, is the path a file?
GetProbe ==
    /\ pc = "get_probe"
    /\ \E response \in ForgeGetContents(args.path, config.default_branch) \cup Faults :
         LET file_info == get_file_info(args.path, response)
         IN pc' = IF file_info.ok THEN "get_file" ELSE "get_list"
    /\ UNCHANGED <<args, config, run, clock, target_path, target_branch, result, calls,
                   http, remoteFiles, remotePRs, remoteLog, tasks, results, disk>>

\* execute: lines 297-309, is the path a directory?
GetList ==
    /\ pc = "get_list"
    /\ \E response \in ForgeFileList(config.default_branch) \cup Faults :
       \E items \in ListRepositoryTree(Some(args.path), FALSE, response) :
            IF ~items.ok
            THEN Return(Err("Api", <<"Path '">> \o args.path
                                   \o <<"' does not exist or cannot be accessed">>))
            ELSE /\ pc' = IF items.items # <<>> THEN "get_dir" ELSE "get_file"
                 /\ UNCHANGED result
    /\ UNCHANGED <<args, config, run, clock, target_path, target_branch, calls, http,
                   remoteFiles, remotePRs, remoteLog, tasks, results, disk>>

\* download_directory: lines 169-179, the recursive listing; without a file
\* in it the command ends
GetListFiles ==
    /\ pc = "get_dir"
    /\ \E response \in ForgeFileList(config.default_branch) \cup Faults :
       \E items \in ListRepositoryTree(Some(args.path), TRUE, response) :
            /\ calls' = <<Call("list_repository_tree", config.default_branch,
                                args.path, items)>>
            /\ IF ~items.ok THEN Return(items)
               ELSE IF FilesOf(items.items) = <<>> THEN Return(Outcome(<<>>))
               ELSE pc' = "get_spawn" /\ UNCHANGED result
    /\ UNCHANGED <<args, config, run, clock, target_path, target_branch, http,
                   remoteFiles, remotePRs, remoteLog, tasks, results, disk>>

\* download_directory: lines 196-214, one turn of the loop: a task is spawned
GetSpawn ==
    /\ pc = "get_spawn"
    /\ LET files == FilesOf(calls[1].items)
           file == files[Len(tasks) + 1]
       IN /\ tasks' = Append(tasks, Task(file.path,
                                         LocalPath(OutputPath, args.path, file.path)))
          /\ pc' = IF Len(tasks) + 1 = Len(files) THEN "get_await" ELSE "get_spawn"
    /\ UNCHANGED <<args, config, run, clock, target_path, target_branch, result, calls,
                   http, remoteFiles, remotePRs, remoteLog, results, disk>>

\* download_file_task: lines 93-117, a task that was spawned runs up to the
\* request, whatever the command is at
TaskStart ==
    /\ pc \in {"get_spawn", "get_await"}
    /\ \E i \in DOMAIN tasks :
         /\ tasks[i].at = "spawned"
         /\ LET task == tasks[i]
                client == create_provider(config)
            IN tasks' = [tasks EXCEPT ![i] =
                 IF Exists(task.local_path) /\ ~args.force
                 THEN [task EXCEPT !.at = "done",
                           !.result = Failed(task.remote_path,
                               <<"File '">> \o task.local_path
                                   \o <<"' already exists, use -f to overwrite">>)]
                 ELSE IF ~client.ok
                 THEN [task EXCEPT !.at = "done",
                           !.result = Failed(task.remote_path,
                               <<"Failed to create API client: ">> \o Display(client))]
                 ELSE [task EXCEPT !.at = "fetch"]]
    /\ UNCHANGED <<args, config, pc, run, clock, target_path, target_branch, result, calls,
                   http, remoteFiles, remotePRs, remoteLog, results, disk>>

\* download_file_task: line 119, the answer to a task's get_file_raw
TaskFetch ==
    /\ pc \in {"get_spawn", "get_await"}
    /\ \E i \in DOMAIN tasks :
       \E response \in ForgeGetRaw(tasks[i].remote_path, config.default_branch) \cup Faults :
         /\ tasks[i].at = "fetch"
         /\ LET task == tasks[i]
                content == get_file_content(task.remote_path, response)
            IN tasks' = [tasks EXCEPT ![i] =
                 IF content.ok
                 THEN [task EXCEPT !.at = "write", !.size = ContentLen(content.sha)]
                 ELSE [task EXCEPT !.at = "done",
                           !.result = Failed(task.remote_path, Display(content))]]
    /\ UNCHANGED <<args, config, pc, run, clock, target_path, target_branch, result, calls,
                   http, remoteFiles, remotePRs, remoteLog, results, disk>>

\* download_file_task: lines 120-148, a task writes the content
TaskWrite ==
    /\ pc \in {"get_spawn", "get_await"}
    /\ \E i \in DOMAIN tasks :
       \E fs \in FsOutcomes(tasks[i].local_path) :
         /\ tasks[i].at = "write"
         /\ LET task == tasks[i]
            IN /\ tasks' = [tasks EXCEPT ![i] =
                    [task EXCEPT !.at = "done",
                        !.result =
                            IF fs = "written"
                            THEN DownloadResult(task.remote_path, TRUE, task.size, None)
                            ELSE IF fs = "mkdir_failed"
                            THEN Failed(task.remote_path, <<"Failed to create directory: ">>)
                            ELSE Failed(task.remote_path, <<"Failed to write file: ">>)]]
               /\ disk' = IF fs = "written" THEN disk \cup {task.local_path} ELSE disk
    /\ UNCHANGED <<args, config, pc, run, clock, target_path, target_branch, result, calls,
                   http, remoteFiles, remotePRs, remoteLog, results>>

\* a task panics before it returns: awaiting it gives a JoinError
TaskPanic ==
    /\ pc \in {"get_spawn", "get_await"}
    /\ \E i \in DOMAIN tasks :
         /\ tasks[i].at \in {"spawned", "fetch", "write"}
         /\ tasks' = [tasks EXCEPT ![i] = [tasks[i] EXCEPT !.at = "panicked"]]
    /\ UNCHANGED <<args, config, pc, run, clock, target_path, target_branch, result, calls,
                   http, remoteFiles, remotePRs, remoteLog, results, disk>>

\* download_directory: lines 220-263, one turn of the loop: the next task is
\* awaited; after the last one download_directory returns and execute ends
GetAwait ==
    /\ pc = "get_await"
    /\ Len(results) < Len(tasks)
    /\ tasks[Len(results) + 1].at \in {"done", "panicked"}
    /\ results' = Append(results, Joined(tasks[Len(results) + 1]))
    /\ IF Len(results') = Len(tasks) THEN Return(Outcome(results'))
       ELSE UNCHANGED <<pc, result>>
    /\ UNCHANGED <<args, config, run, clock, target_path, target_branch, calls,
                   http, remoteFiles, remotePRs, remoteLog, tasks, disk>>

\* execute: lines 371-396, the download of a single file
GetFile ==
    /\ pc = "get_file"
    /\ IF Exists(OutputPath) /\ ~args.force
       THEN /\ Return(Err("Validation", <<"File '">> \o OutputPath
                              \o <<"' already exists, use -f/--force to overwrite">>))
            /\ UNCHANGED disk
       ELSE \E response \in ForgeGetRaw(args.path, config.default_branch) \cup Faults :
            \E fs \in FsOutcomes(OutputPath) :
              LET content == get_file_content(args.path, response)
              IN IF ~content.ok THEN Return(content) /\ UNCHANGED disk
                 ELSE IF fs = "written"
                 THEN Return(Ok(content.sha, <<>>)) /\ disk' = disk \cup {OutputPath}
                 ELSE Return(Err("Io", <<fs>>)) /\ UNCHANGED disk
    /\ UNCHANGED <<args, config, run, clock, target_path, target_branch, calls, http,
                   remoteFiles, remotePRs, remoteLog, tasks, results>>

\* what the default branch of the forge can hold: files of one name in a
\* directory and below it, a directory listed by itself beside another whose
\* name begins alike, files at the root
GetFiles ==
    {<< <<"s","/","m">>, <<"s","/","l">>, <<"s","/","c","/","m">>, <<"R">> >>,
     << <<"s","/">>, <<"s","/","m">>, <<"s","x","/","a">> >>,
     << <<"s">>, <<"R">> >>}

\* the paths asked for
GetPaths ==
    {<<"s">>, <<"s","/">>, <<"/","s","/">>, <<"s","/","c">>, <<"R">>, <<"x">>}

InitGet ==
    /\ args \in [path : GetPaths, output : {None, Some(<<"o">>)}, force : BOOLEAN]
    /\ config = [load_ok |-> TRUE, provider |-> Gitcode, project_id |-> <<"o","/","r">>,
                 default_branch |-> Main]
    /\ pc = "get_start"
    /\ run = 1
    /\ clock = 1
    /\ target_path = <<>>
    /\ target_branch = <<>>
    /\ result = Pending
    /\ calls = <<>>
    /\ http = <<>>
    /\ remoteFiles \in {[b \in {Main} |-> [i \in 1..Len(files) |->
                                               [path |-> files[i], sha |-> i]]] :
                         files \in GetFiles}
    /\ remotePRs = <<>>
    /\ remoteLog = <<>>
    /\ tasks = <<>>
    /\ results = <<>>
    /\ disk = {<<".","/","s","/","m">>}

NextGet ==
    \/ GetBegin
    \/ GetProbe
    \/ GetList
    \/ GetListFiles
    \/ GetSpawn
    \/ TaskStart
    \/ TaskFetch
    \/ TaskWrite
    \/ TaskPanic
    \/ GetAwait
    \/ GetFile

SpecGet == InitGet /\ [][NextGet]_vars

----------------------------------------------------------------------------
(* generate_branch_name called by itself, as the tests of submit.rs call it *)
(* (test_generate_branch_name_custom, test_branch_name_sanitization): args  *)
(* holds --branch and the message, target_branch the name returned          *)

MaxMsgLen == 3

\* the characters of the messages
MsgChars == {"F", "x", ":", "/", " "}

\* the messages of length n
MsgsOfLen(n) == [1..n -> MsgChars]

\* cmd.generate_branch_name(msg)
DeriveBranchName ==
    /\ pc = "name_start"
    /\ target_branch' = generate_branch_name(args.branch, args.msg, clock)
    /\ pc' = "name_done"
    /\ UNCHANGED <<args, config, run, clock, target_path, result, calls, http,
                   remoteFiles, remotePRs, remoteLog>>
    /\ UNCHANGED <<tasks, results, disk>>

InitName ==
    /\ args \in [branch : {None, Some(Custom)},
                 msg : UNION {MsgsOfLen(n) : n \in 0..MaxMsgLen}]
    /\ config = [load_ok |-> TRUE, provider |-> Gitcode, project_id |-> <<"o","/","r">>,
                 default_branch |-> Main]
    /\ pc = "name_start"
    /\ run = 1
    /\ clock \in 1..MaxClock
    /\ target_path = <<>>
    /\ target_branch = <<>>
    /\ result = Pending
    /\ calls = <<>>
    /\ http = <<>>
    /\ remoteFiles = <<>>
    /\ remotePRs = <<>>
    /\ remoteLog = <<>>
    /\ tasks = <<>>
    /\ results = <<>>
    /\ disk = {}

NextName == DeriveBranchName

SpecName == InitName /\ [][NextName]_vars

----------------------------------------------------------------------------
(* The translation of a pull-request payload (impl From<GitCodePullResponse> *)
(* for PullRequest, src/api/gitcode/types.rs): args holds the payload,       *)
(* result.items the PullRequest made of it                                   *)

\* a GitCodePullRef of the payload (Option<GitCodePullRef>: some = FALSE for
\* a payload without it)
PullRef(ref_name, name, sha) ==
    [some |-> TRUE, ref_name |-> ref_name, name |-> name, sha |-> sha]

NoPullRef == [some |-> FALSE, ref_name |-> None, name |-> None, sha |-> <<>>]

\* branch_name taking the alternate name before the reference name
branch_name_NameFirst(pull_ref) ==
    IF pull_ref.name.some THEN pull_ref.name.val
    ELSE IF pull_ref.ref_name.some THEN pull_ref.ref_name.val
    ELSE <<"s","h","a",":">> \o pull_ref.sha

\* from: branch_name of a head or base that the payload has
branch_name(pull_ref) ==
    IF pull_ref.ref_name.some THEN pull_ref.ref_name.val
    ELSE IF pull_ref.name.some THEN pull_ref.name.val
    ELSE <<"s","h","a",":">> \o pull_ref.sha

\* from: head_info / base_info, as the name of the branch (None: no
\* PullRequestRef at all)
RefInfo(pull_ref, branch) ==
    IF pull_ref.some THEN Some(branch_name(pull_ref)) ELSE branch

\* impl From<GitCodePullResponse> for PullRequest: head and base
PullRequestFrom(pr) ==
    [head |-> RefInfo(pr.head, pr.source_branch),
     base |-> RefInfo(pr.base, pr.target_branch)]

\* the head or base objects a payload can have
PullRefs ==
    {NoPullRef}
    \cup {PullRef(ref_name, name, <<"a","1">>) :
            ref_name \in {None, Some(<<"r">>), Some(<<>>)},
            name \in {None, Some(<<"n">>)}}

\* pull_response.into()
TranslatePull ==
    /\ pc = "pull_start"
    /\ result' = Ok(0, <<PullRequestFrom(args)>>)
    /\ pc' = "pull_done"
    /\ UNCHANGED <<args, config, run, clock, target_path, target_branch, calls, http,
                   remoteFiles, remotePRs, remoteLog>>
    /\ UNCHANGED <<tasks, results, disk>>

InitPull ==
    /\ args \in [head : PullRefs, base : PullRefs,
                 source_branch : {None, Some(<<"b">>)},
                 target_branch : {None, Some(Main)}]
    /\ config = [load_ok |-> TRUE, provider |-> Gitcode, project_id |-> <<"o","/","r">>,
                 default_branch |-> Main]
    /\ pc = "pull_start"
    /\ run = 1
    /\ clock = 1
    /\ target_path = <<>>
    /\ target_branch = <<>>
    /\ result = Pending
    /\ calls = <<>>
    /\ http = <<>>
    /\ remoteFiles = <<>>
    /\ remotePRs = <<>>
    /\ remoteLog = <<>>
    /\ tasks = <<>>
    /\ results = <<>>
    /\ disk = {}

NextPull == TranslatePull

SpecPull == InitPull /\ [][NextPull]_vars

----------------------------------------------------------------------------
(* Properties *)

MutatingOps ==
    {"create_branch", "create_or_update_file", "create_pull_request", "assign_reviewers"}

Mutating(c) == c.op \in MutatingOps

NotGet(r) == r.method # "GET"

\* no mutating provider call and no request other than GET in this run
NoMutation == SelectSeq(calls, Mutating) = <<>> /\ SelectSeq(http, NotGet) = <<>>

\* the collision probe of this run found the target on the default branch
\* and no overwrite was asked for
CollisionFound ==
    /\ Len(calls) >= 1
    /\ calls[1].op = "get_file_info"
    /\ calls[1].res = "Ok"
    /\ ~args.force

\* C1: when the collision probe succeeds and force is not set, the run ends
\* at the collision check with an error, the probe being its only remote
\* call: no mutating call is issued in that run.
C1_CollisionAbortsWithoutMutation ==
    CollisionFound =>
        /\ pc = "done"
        /\ ~result.ok
        /\ Len(calls) = 1
        /\ Len(http) = 1
        /\ NoMutation

C1_Witness ==
    /\ CollisionFound
    /\ pc = "done"
    /\ FileSha(config.default_branch, target_path) # 0

\* C2: the error of that abort is VktError::Conflict and its message names
\* the colliding target path.
C2_CollisionErrorIsConflict ==
    (CollisionFound /\ pc = "done") =>
        /\ result.kind = "Conflict"
        /\ Contains(result.msg, target_path)

\* C3: in the collision check a not-found probe lets the run go on to the
\* readiness check; a probe failing in any other way ends the run with that
\* very error, and no other remote call is made.
C3_CollisionProbeErrors ==
    (Len(calls) >= 1 /\ calls[1].op = "get_file_info") =>
        /\ calls[1].res = "ApiNotFound" =>
              IF Len(calls) = 1 THEN pc = "readiness" /\ result = Pending
              ELSE calls[2].op = "list_repository_tree"
        /\ calls[1].res \notin {"Ok", "ApiNotFound"} =>
              /\ pc = "done"
              /\ ~result.ok
              /\ result.kind = calls[1].res
              /\ result.msg = calls[1].msg
              /\ Len(calls) = 1
              /\ Len(http) = 1

C3_Witness ==
    /\ pc = "done"
    /\ Len(calls) = 1
    /\ calls[1].op = "get_file_info"
    /\ calls[1].res = "RateLimited"
    /\ result.kind = "RateLimited"

\* the i-th call of this run is a listing that came back empty
EmptyListing(i) ==
    /\ calls[i].op = "list_repository_tree"
    /\ calls[i].res = "Ok"
    /\ calls[i].n = 0

\* C4: when the root listing of the default branch comes back empty the run
\* ends there, before any mutation, with an error that is not retryable.
C4_EmptyListingIsFatal ==
    \A i \in 1..Len(calls) :
        EmptyListing(i) =>
            /\ pc = "done"
            /\ i = Len(calls)
            /\ ~result.ok
            /\ ~is_retryable(result)
            /\ NoMutation

C4_Witness ==
    /\ pc = "done"
    /\ Len(calls) = 2
    /\ EmptyListing(2)
    /\ ~result.ok

\* C5: a dry run never mutates: its only remote calls are the collision
\* probe and the readiness listing, the forge applies nothing, and once the
\* branch name is derived it returns success.
C5_DryRunDoesNotMutate ==
    args.dry_run =>
        /\ NoMutation
        /\ remoteLog = <<>>
        /\ remotePRs = <<>>
        /\ (pc = "done" /\ target_branch # <<>>) =>
              /\ result.ok
              /\ [i \in 1..Len(calls) |-> calls[i].op]
                    = <<"get_file_info", "list_repository_tree">>
              /\ [i \in 1..Len(http) |-> http[i].endpoint] = <<"contents", "file_list">>

C5_Witness ==
    /\ args.dry_run
    /\ pc = "done"
    /\ result.ok
    /\ target_branch # <<>>
    /\ Len(calls) = 2

MutatingCalls == SelectSeq(calls, Mutating)

MutationOrder == <<"create_branch", "create_or_update_file", "create_pull_request">>

\* C6: the mutating calls of a run are create_branch, create_or_update_file,
\* create_pull_request in this order, each at most once and each only after
\* the one before returned success; a failed one is the last call of the run
\* and its error is what the run returns.
C6_MutationsInOrder ==
    /\ Len(MutatingCalls) <= Len(MutationOrder)
    /\ \A i \in 1..Len(MutatingCalls) : MutatingCalls[i].op = MutationOrder[i]
    /\ \A i \in 1..(Len(MutatingCalls) - 1) : MutatingCalls[i].res = "Ok"
    /\ \A i \in 1..Len(calls) :
          (Mutating(calls[i]) /\ calls[i].res # "Ok") =>
              /\ i = Len(calls)
              /\ pc = "done"
              /\ result.kind = calls[i].res
              /\ result.msg = calls[i].msg
    /\ LET writes == SelectSeq(http, NotGet)
       IN /\ Len(writes) <= 3
          /\ \A i \in 1..Len(writes) :
                writes[i].endpoint = <<"branches", "contents", "pulls">>[i]

C6_Witness ==
    /\ pc = "done"
    /\ Len(MutatingCalls) = 2
    /\ MutatingCalls[1].res = "Ok"
    /\ MutatingCalls[2].res = "Network"
    /\ result.kind = "Network"

\* the mutations of kind op the forge has applied for branch b
Applied(op, b) == SelectSeq(remoteLog, LAMBDA e : e.op = op /\ e.branch = b)

AppliedOp(op) == SelectSeq(remoteLog, LAMBDA e : e.op = op)

\* C7 as stated: whatever the earlier invocations did, the invocations with
\* the same inputs leave at most one branch and at most one pull request.
C7_RerunsNeverDuplicate ==
    /\ Len(AppliedOp("branch")) <= 1
    /\ Len(remotePRs) <= 1

\* C7 as amended: per branch name the forge gets at most one branch, one
\* upload and one pull request; a run whose create_branch is rejected as a
\* duplicate ends there, and so does, without mutation, a run that finds the
\* target on the default branch with no overwrite asked for; and with a
\* caller-supplied branch name, all the invocations together leave at most
\* one branch, upload and pull request.
C7_OncePerBranchName ==
    /\ CollisionFound => (pc = "done" /\ ~result.ok /\ NoMutation)
    /\ \A i \in 1..Len(remoteLog) :
          Len(Applied(remoteLog[i].op, remoteLog[i].branch)) = 1
    /\ \A i, j \in 1..Len(remotePRs) :
          remotePRs[i].head = remotePRs[j].head => i = j
    /\ \A i \in 1..Len(http) :
          (http[i].endpoint = "branches" /\ http[i].status \in {409, 422}) =>
              /\ i = Len(http)
              /\ pc = "done"
              /\ ~result.ok
    /\ args.branch.some =>
          /\ Len(AppliedOp("branch")) <= 1
          /\ Len(AppliedOp("commit")) <= 1
          /\ Len(remotePRs) <= 1

C7_Witness ==
    /\ run = 2
    /\ pc = "done"
    /\ args.branch.some
    /\ Len(remotePRs) = 1
    /\ Len(Applied("branch", target_branch)) = 1
    /\ Len(calls) = 3
    /\ calls[3].op = "create_branch"
    /\ ~result.ok

\* C8: a run whose create_pull_request succeeded has called assign_reviewers
\* by the time it reports completion.
C8_ReviewersAssignedAfterPR ==
    (pc = "done" /\ \E i \in 1..Len(calls) :
                       calls[i].op = "create_pull_request" /\ calls[i].res = "Ok") =>
        \E j \in 1..Len(calls) : calls[j].op = "assign_reviewers"

\* C9: assign_reviewers returns success when the endpoint answers with any
\* status that is not a success (404, 405, 401, ...).
C9_ReviewersUnsupportedIsOk ==
    (/\ pc = "api_done"
     /\ calls[1].op = "assign_reviewers"
     /\ http[1].status # 0
     /\ ~(http[1].status \in 200..299)) =>
        /\ result.ok
        /\ calls[1].res = "Ok"

C9_Witness ==
    /\ pc = "api_done"
    /\ calls[1].op = "assign_reviewers"
    /\ http[1].status = 404
    /\ remotePRs # <<>>
    /\ result.ok

\* C10: create_or_update_file probes the target branch first and the default
\* branch only when that probe gave no file; it sends PUT with the sha of the
\* first probe that gave one, and POST without sha when neither did.
C10_UpsertProbesThenWrites ==
    (pc = "api_done" /\ calls[1].op = "create_or_update_file") =>
        LET n == Len(http)
            hit1 == http[1].rsha # 0
            hit2 == n = 3 /\ http[2].rsha # 0
        IN /\ n \in {2, 3}
           /\ http[1].method = "GET" /\ http[1].endpoint = "contents"
           /\ http[1].ref = calls[1].a
           /\ (n = 3) <=> ~hit1
           /\ n = 3 => /\ http[2].method = "GET" /\ http[2].endpoint = "contents"
                       /\ http[2].ref = config.default_branch
           /\ http[n].endpoint = "contents" /\ http[n].ref = calls[1].a
           /\ http[n].method \in {"PUT", "POST"}
           /\ (http[n].method = "PUT") <=> (hit1 \/ hit2)
           /\ http[n].method = "PUT" =>
                 http[n].sha = (IF hit1 THEN http[1].rsha ELSE http[2].rsha)
           /\ http[n].method = "POST" => http[n].sha = 0

C10_Witness ==
    /\ pc = "api_done"
    /\ calls[1].op = "create_or_update_file"
    /\ Len(http) = 3
    /\ http[1].status = 404
    /\ http[2].rsha = 2
    /\ http[3].method = "PUT"
    /\ http[3].sha = 2

\* the requests of this call that are existence probes which failed otherwise
\* than by not finding the file
FailedProbe(r) == r.method = "GET" /\ r.status # 404 /\ r.rsha = 0

\* C11: in create_or_update_file a probe that fails otherwise than with
\* not-found ends the call with an error: it is the last request of the call
\* and no create or update request is sent.
C11_ProbeErrorsPropagate ==
    (pc = "api_done" /\ calls[1].op = "create_or_update_file") =>
        \A i \in 1..Len(http) :
            FailedProbe(http[i]) =>
                /\ i = Len(http)
                /\ ~result.ok
                /\ SelectSeq(http, NotGet) = <<>>

\* the calls whose last request is answered through handle_response
ClassifiedOps == {"create_branch", "create_or_update_file", "create_pull_request"}

\* the body has the phrasing of a rate limit
RateLimitPhrasing(text) ==
    \/ Contains(ToLowercase(text), <<"r","a","t","e">>)
    \/ Contains(ToLowercase(text), <<"l","i","m","i","t">>)

C14_TooManyRequestsIsRateLimited ==
    (/\ pc = "api_done"
     /\ calls[1].op \in ClassifiedOps
     /\ http[Len(http)].status = 429
     /\ RateLimitPhrasing(http[Len(http)].text)) =>
        /\ result.kind = "RateLimited"
        /\ is_retryable(result)

\* C15: create_branch for a name the forge already has returns Conflict,
\* whether the forge answers the duplicate with 409 or with 422.
C15_DuplicateBranchIsConflict ==
    (/\ pc = "api_done"
     /\ calls[1].op = "create_branch"
     /\ http[1].status \in {409, 422}) =>
        result.kind = "Conflict"

\* the configured provider identifier is the supported one, whatever its case
SupportedProvider == ToLowercase(config.provider) = <<"g","i","t","c","o","d","e">>

\* C16: with a provider identifier other than GitCode (in any case) the
\* client is never built: the command ends with a Config error before any
\* provider call or request, in every invocation; with GitCode it is built.
C16_UnsupportedProviderIsConfigError ==
    /\ ~SupportedProvider =>
          /\ pc \in {"start", "done"}
          /\ calls = <<>>
          /\ http = <<>>
          /\ remoteLog = <<>>
          /\ remotePRs = <<>>
          /\ pc = "done" => (~result.ok /\ result.kind = "Config")
    /\ (SupportedProvider /\ config.load_ok /\ pc = "done") => result.kind # "Config"

C16_Witness ==
    /\ config.provider = Gitee
    /\ config.load_ok
    /\ args.local = "file"
    /\ run = 2
    /\ pc = "done"
    /\ result.kind = "Config"
    /\ calls = <<>>

\* the call that returned is file_exists, of either implementation
FileExistsReturned ==
    /\ pc = "api_done"
    /\ calls[Len(calls)].op \in {"file_exists", "file_exists_default"}

\* C12 as stated: file_exists returns false only when its probe was answered
\* with not-found.
C12_FalseOnlyOnNotFound ==
    (FileExistsReturned /\ result = OkBool(FALSE)) => http[1].status = 404

\* C12 as amended: the default implementation returns false exactly when
\* get_file_info failed with ApiNotFound, true exactly when it found the file,
\* and any other error of it unchanged; the GitCode implementation returns
\* false when its listing request is answered with 404 and also when the
\* listing that came back does not hold the path, true only when the listing
\* holds the path, and the error of any other answer, never ApiNotFound.
C12_FileExists ==
    FileExistsReturned =>
        LET c == calls[Len(calls)]
            r == http[1]
            present == FileSha(c.a, c.b) # 0
        IN IF c.op = "file_exists_default"
           THEN /\ (result = OkBool(FALSE)) <=> (calls[1].res = "ApiNotFound")
                /\ (result = OkBool(TRUE)) <=> (calls[1].res = "Ok")
                /\ (result = OkBool(TRUE)) <=> (r.rsha # 0)
                /\ calls[1].res \notin {"Ok", "ApiNotFound"} =>
                      /\ ~result.ok
                      /\ result.kind = calls[1].res
                      /\ result.msg = calls[1].msg
           ELSE /\ r.status = 404 => result = OkBool(FALSE)
                /\ (result = OkBool(FALSE)) =>
                      (r.status = 404 \/ (r.status = 200 /\ ~present))
                /\ (result = OkBool(TRUE)) <=> (r.status = 200 /\ result.ok /\ present)
                /\ (r.status # 404 /\ ~IsSuccess(r.status)) =>
                      /\ ~result.ok
                      /\ result.kind \in {"Network", "AuthInvalid", "RateLimited",
                                           "PermissionDenied", "Api"}
                      /\ (r.status = 0) <=> (result.kind = "Network")

C12_Witness ==
    /\ FileExistsReturned
    /\ calls[1].op = "file_exists"
    /\ http[1].status = 200
    /\ HasBranch(calls[1].a)
    /\ FileSha(calls[1].a, calls[1].b) = 0
    /\ result = OkBool(FALSE)

\* the list command's call of list_repository_tree returned a listing
Listed ==
    /\ pc = "done"
    /\ calls # <<>>
    /\ calls[Len(calls)].op = "list_repository_tree"
    /\ calls[Len(calls)].res = "Ok"

\* the entries of that listing
ListedItems == calls[Len(calls)].items

\* L: the flat path list the forge holds for the branch listed
FlatPaths ==
    [i \in 1..Len(remoteFiles[config.default_branch]) |->
        remoteFiles[config.default_branch][i].path]

\* S: the scope asked for, without the separators around it
Scope == IF args.path.some THEN TrimMatches(args.path.val, "/") ELSE <<>>

\* p is nested under the scope: below it, and not the scope itself
NestedUnder(p) ==
    Scope = <<>> \/ StartsWith(TrimEndMatches(p, "/"), Scope \o <<"/">>)

\* p is the scope itself, with or without a trailing separator
IsScope(p) == Scope # <<>> /\ TrimEndMatches(p, "/") = Scope

\* the first segment of p relative to the scope, p being nested under it
FirstSegment(p) ==
    LET rel == IF Scope = <<>> THEN p ELSE SubSeq(p, Len(Scope) + 2, Len(p))
    IN IF Find(rel, "/") = 0 THEN rel ELSE SubSeq(rel, 1, Find(rel, "/") - 1)

Range(seq) == {seq[i] : i \in 1..Len(seq)}

\* C17: a recursive listing has exactly one entry per member of L nested
\* under S, in the order of L, with the member's path, and the entry is a
\* directory if and only if the member ends with a separator.
C17_RecursiveIsNestedMembers ==
    (Listed /\ args.recursive) =>
        LET members == SelectSeq(FlatPaths, NestedUnder)
        IN /\ Len(ListedItems) = Len(members)
           /\ \A i \in 1..Len(members) :
                 /\ ListedItems[i].path = TrimEndMatches(members[i], "/")
                 /\ (ListedItems[i].item_type = "tree") <=> EndsWithChar(members[i], "/")

\* C18: the names of a non-recursive listing are pairwise distinct and are
\* the first segments, relative to S, of the members of L nested under S.
C18_ChildrenAreFirstSegments ==
    (Listed /\ ~args.recursive) =>
        /\ \A i, j \in 1..Len(ListedItems) :
              ListedItems[i].name = ListedItems[j].name => i = j
        /\ {ListedItems[i].name : i \in 1..Len(ListedItems)}
              = {FirstSegment(p) : p \in {q \in Range(FlatPaths) : NestedUnder(q)}}

\* C19: in a non-recursive listing with a non-empty scope, a member of L that
\* is the scope itself gives no entry: the listing is the one L gives without
\* that member, and no entry has an empty name.
C19_ScopeItselfIsNoChild ==
    (Listed /\ ~args.recursive /\ \E p \in Range(FlatPaths) : IsScope(p)) =>
        /\ \A i \in 1..Len(ListedItems) : ListedItems[i].name # <<>>
        /\ Range(ListedItems)
              = Range(process_paths(SelectSeq(FlatPaths, LAMBDA p : ~IsScope(p)),
                                    Some(Scope), FALSE))

\* C20: the entries listed are those process_paths gives for the same list
\* with the scope written "S", "/S" and "S/", recursively or not.
C20_ScopeSpellingIsIrrelevant ==
    Listed =>
        \A spelling \in {Scope, <<"/">> \o Scope, Scope \o <<"/">>} :
            Range(process_paths(FlatPaths, Some(spelling), args.recursive))
                = Range(ListedItems)

C20_Witness ==
    /\ Listed
    /\ args.path = Some(<<"/","s">>)
    /\ ~args.recursive
    /\ Len(ListedItems) = 3

\* C21: the id of every entry listed is the hash of the entry's own path
\* field, the path without trailing separator; so a path listed twice, under
\* whatever scope and flag, gets the same id.
C21_IdIsHashOfPath ==
    Listed =>
        \A i \in 1..Len(ListedItems) :
            ListedItems[i].id = Sha256Hex16(ListedItems[i].path)

\* the name was derived from a message, no branch being given
NameDerived == pc = "name_done" /\ ~args.branch.some

\* the derived name without "feat/vkt-submit-<timestamp>-"
NameSuffix ==
    SubSeq(target_branch, Len(BranchPrefix \o Decimal(clock)) + 2, Len(target_branch))

\* the first word of the message without its colons
WordWithoutColons == SelectSeq(FirstWord(args.msg), LAMBDA c : c # ":")

\* C25 as stated: a branch given is returned as it is; otherwise the name is
\* feat/vkt-submit-<timestamp>-<w>, w being the first word of the message
\* with every ':' and '/' removed, in lower case.
C25_WordIsStripped ==
    /\ (pc = "name_done" /\ args.branch.some) => target_branch = args.branch.val
    /\ NameDerived =>
          target_branch = BranchPrefix \o Decimal(clock) \o <<"-">>
                          \o ToLowercase(SelectSeq(FirstWord(args.msg),
                                                   LAMBDA c : c \notin {":", "/"}))

\* C25 as amended: a branch given is returned as it is; otherwise the name is
\* feat/vkt-submit-<timestamp>-<w>, where w is "submit" when the message has
\* no word and else the first word with every ':' removed, every '/' turned
\* into '-' and every letter in lower case; w has no ':', '/' or upper-case
\* letter.
C25_WordIsSanitized ==
    /\ (pc = "name_done" /\ args.branch.some) => target_branch = args.branch.val
    /\ NameDerived =>
          /\ StartsWith(target_branch, BranchPrefix \o Decimal(clock) \o <<"-">>)
          /\ \A i \in 1..Len(NameSuffix) :
                /\ NameSuffix[i] \notin {":", "/"}
                /\ NameSuffix[i] \notin Range(UpperCase)
          /\ IF FirstWord(args.msg) = <<>>
             THEN NameSuffix = <<"s","u","b","m","i","t">>
             ELSE /\ Len(NameSuffix) = Len(WordWithoutColons)
                  /\ \A i \in 1..Len(NameSuffix) :
                        NameSuffix[i] = (IF WordWithoutColons[i] = "/" THEN "-"
                                         ELSE LowerChar(WordWithoutColons[i]))

C25_Witness ==
    /\ NameDerived
    /\ args.msg = <<"F", "/", ":">>
    /\ NameSuffix = <<"f", "-">>

\* C30: the three mutating calls of a run all name the branch derived for
\* that run: create_branch(derived, default), create_or_update_file on the
\* derived branch, create_pull_request(head = derived, base = default); every
\* request that writes goes to the derived branch, and the forge never gets a
\* commit on the default branch nor a pull request from it.
C30_DerivedBranchInAllCalls ==
    /\ \A i \in 1..Len(calls) :
          Mutating(calls[i]) =>
              /\ ~args.dry_run
              /\ target_branch # <<>>
              /\ target_branch = (IF args.branch.some THEN args.branch.val
                                  ELSE BranchPrefix \o Decimal(clock) \o <<"-","f","i","x">>)
              /\ calls[i].a = target_branch
              /\ calls[i].op \in {"create_branch", "create_pull_request"} =>
                    calls[i].b = config.default_branch
    /\ \A i \in 1..Len(http) : NotGet(http[i]) => http[i].ref = target_branch
    /\ \A i \in 1..Len(remoteLog) :
          remoteLog[i].op = "commit" => remoteLog[i].branch # config.default_branch
    /\ \A i \in 1..Len(remotePRs) :
          /\ remotePRs[i].base = config.default_branch
          /\ remotePRs[i].head # config.default_branch

C30_Witness ==
    /\ pc = "done"
    /\ result.ok
    /\ ~args.branch.some
    /\ Len(MutatingCalls) = 3
    /\ Len(remotePRs) = 1
    /\ remotePRs[1].head = target_branch
    /\ FileSha(target_branch, target_path) # 0
    /\ FileSha(config.default_branch, target_path) = 0

\* C27: a branch or file-commit answer whose commit comes without author,
\* committer and dates is translated all the same: the call returns success.
C27_MissingAuthorNeverFails ==
    (/\ pc = "api_done"
     /\ calls[1].op \in {"create_branch", "create_or_update_file"}
     /\ IsSuccess(http[Len(http)].status)
     /\ http[Len(http)].body = "noauthor") =>
        result.ok

\* the PullRequest translated from the payload
Translated == result.items[1]

\* the field made of a head or base object the payload has is present: it is
\* the reference name when the object has one, else the alternate name when
\* it has one, else "sha:" followed by the sha
ResolvedFrom(field, pull_ref) ==
    /\ field.some
    /\ pull_ref.ref_name.some => field.val = pull_ref.ref_name.val
    /\ (~pull_ref.ref_name.some /\ pull_ref.name.some) => field.val = pull_ref.name.val
    /\ (~pull_ref.ref_name.some /\ ~pull_ref.name.some) =>
          (field.val = <<"s","h","a",":">> \o pull_ref.sha /\ field.val # <<>>)

\* C26 as stated: whatever the payload, head and base of the PullRequest are
\* present and not empty.
C26_HeadBaseNeverEmpty ==
    pc = "pull_done" =>
        /\ Translated.head.some /\ Translated.head.val # <<>>
        /\ Translated.base.some /\ Translated.base.val # <<>>

\* C26 as amended: for a payload that has the head (base) object the field is
\* present and is the reference name, else the alternate name, else the
\* placeholder "sha:<sha>"; for a payload without the object the field is
\* source_branch (target_branch) when the payload has it and absent otherwise.
C26_HeadBaseResolution ==
    pc = "pull_done" =>
        /\ args.head.some => ResolvedFrom(Translated.head, args.head)
        /\ args.base.some => ResolvedFrom(Translated.base, args.base)
        /\ ~args.head.some => Translated.head = args.source_branch
        /\ ~args.base.some => Translated.base = args.target_branch

C26_Witness ==
    /\ pc = "pull_done"
    /\ args.head = PullRef(None, None, <<"a","1">>)
    /\ Translated.head = Some(<<"s","h","a",":","a","1">>)
    /\ args.base = PullRef(None, Some(<<"n">>), <<"a","1">>)
    /\ Translated.base = Some(<<"n">>)

\* the paths of the list that pass the filter of the scope
Kept == SelectSeq(args.paths, LAMBDA p : Scope = <<>> \/ IsScope(p) \/ NestedUnder(p))

\* the path relative to the scope, as the loop takes it, without trailing
\* separator
RelativeTrimmed(p) ==
    TrimEndMatches(IF Scope # <<>> /\ StartsWith(p, Scope \o <<"/">>)
                   THEN SubSeq(p, Len(Scope) + 2, Len(p)) ELSE p, "/")

\* the name of the child p is listed under
ChildName(p) ==
    IF Find(RelativeTrimmed(p), "/") = 0 THEN RelativeTrimmed(p)
    ELSE SubSeq(RelativeTrimmed(p), 1, Find(RelativeTrimmed(p), "/") - 1)

\* the first of the kept paths listed under the name
FirstYielding(name) ==
    Kept[CHOOSE k \in 1..Len(Kept) :
            /\ ChildName(Kept[k]) = name
            /\ \A j \in 1..(k - 1) : ChildName(Kept[j]) # name]

\* C28: a non-recursive listing has one entry per child name of the paths
\* kept, and the entry's kind is that of the first kept path with this name:
\* a directory when the relative path goes on after the name, and otherwise a
\* directory exactly when the path ends with a separator.
C28_FirstOccurrenceDecidesKind ==
    (pc = "paths_done" /\ ~args.recursive) =>
        /\ {result.items[i].name : i \in 1..Len(result.items)}
              = {ChildName(Kept[k]) : k \in 1..Len(Kept)}
        /\ \A i, j \in 1..Len(result.items) :
              result.items[i].name = result.items[j].name => i = j
        /\ \A i \in 1..Len(result.items) :
              LET first == FirstYielding(result.items[i].name)
              IN (result.items[i].item_type = "tree")
                     <=> (Find(RelativeTrimmed(first), "/") # 0 \/ EndsWithChar(first, "/"))

C28_Witness ==
    /\ pc = "paths_done"
    /\ ~args.recursive
    /\ args.path = Some(<<"s">>)
    /\ args.paths = << <<"s","/","c">>, <<"s","/","c","/","d">> >>
    /\ Len(result.items) = 1
    /\ result.items[1].name = <<"c">>
    /\ result.items[1].item_type = "blob"

\* C29: every entry process_paths returns has a path without trailing
\* separator and is either a "tree" of mode 040000 or a "blob" of mode
\* 100644, so that exactly one of is_dir and is_file holds of it.
C29_KindAndModeAgree ==
    pc = "paths_done" =>
        \A i \in 1..Len(result.items) :
            LET item == result.items[i]
            IN /\ ~EndsWithChar(item.path, "/")
               /\ \/ item.item_type = "tree" /\ item.mode = <<"0","4","0","0","0","0">>
                  \/ item.item_type = "blob" /\ item.mode = <<"1","0","0","6","4","4">>
               /\ is_dir(item) # is_file(item)

C29_Witness ==
    /\ pc = "paths_done"
    /\ args.recursive
    /\ args.paths = << <<"s","/">>, <<"R">> >>
    /\ Len(result.items) = 2
    /\ is_dir(result.items[1]) /\ ~is_file(result.items[1])
    /\ is_file(result.items[2]) /\ ~is_dir(result.items[2])

\* the get command has listed the files of a directory
DirectoryListed == calls # <<>> /\ calls[1].res = "Ok"

\* the directory branch of the get command has ended after dispatching
DirectoryDone == pc = "done" /\ DirectoryListed

\* the files of the recursive listing, by their type
ListedFiles == SelectSeq(calls[1].items, LAMBDA item : item.item_type = "blob")

\* C22: a directory download that dispatched its files ends in success as
\* soon as one file was downloaded, with the successes and the failures in
\* its results, and ends in the error "All files failed to download" exactly
\* when at least one file was attempted and none succeeded.
C22_FailsOnlyWhenAllFailed ==
    DirectoryDone =>
        /\ (\E i \in 1..Len(results) : results[i].success) => result.ok
        /\ (result = Err("Api", <<"All files failed to download">>))
              <=> (tasks # <<>> /\ \A i \in 1..Len(results) : ~results[i].success)
        /\ ~result.ok => result = Err("Api", <<"All files failed to download">>)

C22_Witness ==
    /\ DirectoryDone
    /\ result.ok
    /\ \E i, j \in 1..Len(results) : results[i].success /\ ~results[j].success

\* C23: every file of the recursive listing gets a task of its own, and
\* whatever the order of the tasks' steps the command ends with one result
\* per listed file, in the order of the listing: the success of the file's
\* own task with the size of its content, or its failure with a reason; a
\* step changes one task only, a task that has returned or panicked stays as
\* it is, and a result is collected only from a task that has ended.
C23_OneResultPerFile ==
    /\ [](DirectoryListed =>
            /\ \A i \in 1..Len(tasks) : tasks[i].remote_path = ListedFiles[i].path
            /\ Len(results) <= Len(tasks)
            /\ \A i \in 1..Len(results) :
                 /\ tasks[i].at \in {"done", "panicked"}
                 /\ results[i].path = ListedFiles[i].path
                 /\ IF tasks[i].at = "panicked"
                    THEN ~results[i].success /\ results[i].error.some
                    ELSE results[i] = tasks[i].result
                 /\ IF results[i].success
                    THEN /\ results[i].error = None
                         /\ results[i].size
                              = ContentLen(FileSha(config.default_branch, results[i].path))
                    ELSE results[i].error.some /\ results[i].size = 0
            /\ pc = "done" => Len(results) = Len(ListedFiles))
    /\ [][\A i \in DOMAIN tasks :
            /\ tasks[i].at \in {"done", "panicked"} => tasks'[i] = tasks[i]
            /\ tasks'[i] # tasks[i] =>
                 \A j \in DOMAIN tasks \ {i} : tasks'[j] = tasks[j]]_vars

C23_Witness ==
    /\ DirectoryDone
    /\ Len(results) = 3
    /\ tasks[1].at = "panicked"
    /\ ~results[2].success /\ tasks[2].at = "done"
    /\ results[3].success

\* C24: the tasks of one download_directory call have local paths that
\* differ from one another, and what a task has written is at its own path.
C24_OutputPathsDiffer ==
    /\ \A i, j \in DOMAIN tasks : i # j => tasks[i].local_path # tasks[j].local_path
    /\ \A i \in DOMAIN tasks :
         (tasks[i].at = "done" /\ tasks[i].result.success) => tasks[i].local_path \in disk

C24_Witness ==
    /\ Len(tasks) = 3
    /\ args.path = <<"/","s","/">>
    /\ args.output = None
    /\ tasks[1].local_path = <<".","/","s","/","s","/","m">>
    /\ tasks[3].local_path = <<".","/","s","/","s","/","c","/","m">>
    /\ \A i \in 1..3 : tasks[i].at = "done" /\ tasks[i].result.success

====
